---- MODULE Spec2Model ----
(***************************************************************************)
(* A model of the image-generation gateway:                                *)
(*   - the per-credential daily rate limiter (createDynamicRateLimiter),   *)
(*   - the poll loop (pollTaskCompletion),                                 *)
(*   - the orchestration (generateImage) with its storage and log calls.   *)
(* Each await of the JavaScript code is a point where other requests may   *)
(* run, so every handler is split into one action per await.               *)
(***************************************************************************)
EXTENDS Integers, Sequences, FiniteSets, TLC

(***************************************************************************)
(* Bounds of the model.                                                    *)
(***************************************************************************)
NumReq == 3          \* requests that reach the rate limiter for the credential
MaxRateLimit == 2    \* largest rate_limit a credential of the model carries
DayLen == 2          \* clock ticks in one day
MaxN == 2            \* largest n generateImage is called with
EarlyPolls == 2      \* polls the upstream answers before its transport fails
NumAuth == 3         \* requests that reach authenticateApiKey one after another

(***************************************************************************)
(* Program constants.                                                      *)
(***************************************************************************)
DefaultMaxRequests == 100   \* req.apiKey.rateLimit || 100
maxAttempts == 60           \* POLL_CONFIG.maxAttempts
MaxImages == 10             \* numImages > 10 is refused by the route

VARIABLES
  \* ---- quota ledger (table rate_limits, one credential) and the limiter
  clock,       \* the wall clock, in ticks
  rateLimit,   \* req.apiKey.rateLimit of the credential (keys.rate_limit)
  rec,         \* the credential's rate_limits row, or NoRec
  rpc,         \* rpc[r]: where request r is in the limiter
  rnow,        \* rnow[r]: the local `now`
  rreset,      \* rreset[r]: the local `resetTime` (today's midnight)
  rdata,       \* rdata[r]: the local {data, error} of the select
  routcome,    \* routcome[r]: "none", "next" (admitted) or "429" (denied)
  rwrites,     \* rwrites[r]: write calls request r issued to rate_limits
  rheaders,    \* rheaders[r]: the X-RateLimit-* headers set, or NoHdr
  rbranch,     \* rbranch[r]: the branch request r left the handler by
  \* ---- one call of pollTaskCompletion
  ppc,         \* "idle", "loop", "returned" or "threw"
  taskUrl,     \* the argument: a task URL, or Absent
  attempt,     \* the loop variable
  pollCalls,   \* axios.get(taskUrl) calls issued
  seen,        \* the kinds of answer the upstream has given so far
  doneAt,      \* the call that first got status 'done' with a url (0: none)
  doneUrl,     \* the url of that answer
  pollResult,  \* what the call returned or threw
  \* ---- one call of generateImage
  gpc,         \* "idle", "start", "poll", "upload", "log", "b64", "catch", "done"
  params,      \* the argument
  ack,         \* the acknowledgement of the submit: "none", "ok", "not_ok", "throw"
  submits,     \* upstream submit requests issued
  downloads,   \* downloads of the artifact started
  puts,        \* storage uploads issued
  tempFiles,   \* temporary files on disk
  imageUrl,    \* what uploadToStorage returned
  logs,        \* statuses of the request_logs inserts attempted, in order
  gerr,        \* the error caught by generateImage's catch block
  gresult,     \* what the call returned or threw
  resolved,    \* the locals actualModel, providerName, endpoint and the model= of apiUrl
  upOutcome,   \* how the calls of uploadToStorage went ("none": not called)
  b64Outcome,  \* how the calls of imageToBase64 went ("none": not called)
  \* ---- one POST /v1/images/generations, after the two middlewares
  rtpc,        \* "idle", "start", "await", "done"
  body,        \* req.body
  response,    \* the HTTP response sent
  \* ---- the keys table (one credential) and authenticateApiKey
  apc,         \* "idle", "start", "decide", "next", "done"
  path,        \* the route the request asks for
  header,      \* the kind of Authorization header the request carries
  keyRow,      \* the credential's row of the keys table
  adata,       \* the local {data, error} of the select
  areq,        \* requests that have entered authenticateApiKey
  authed,      \* requests for which req.apiKey was set
  usage0,      \* usage_count of the row before the first request
  \* ---- the KeepAliveService singleton and the timers of the runtime
  isRunning,   \* this.isRunning
  interval,    \* this.interval: the id of the last timer made, 0 for null
  timers,      \* the ids of the interval timers that are active
  pingUrl,     \* this.pingUrl
  pingInterval,\* this.pingInterval, in milliseconds
  kaLogs,      \* this.logs
  inFlight,    \* the pings whose axios.get has not completed yet
  pings,       \* pings started so far
  kaOp         \* the last operation on the service, and isRunning before it

rlVars == <<clock, rateLimit, rec, rpc, rnow, rreset, rdata, routcome, rwrites, rheaders, rbranch>>
pollVars == <<ppc, taskUrl, attempt, pollCalls, seen, doneAt, doneUrl, pollResult>>
genVars == <<gpc, params, ack, submits, downloads, puts, tempFiles, imageUrl, logs, gerr, gresult,
             resolved, upOutcome, b64Outcome>>
routeVars == <<rtpc, body, response>>
authVars == <<apc, path, header, keyRow, adata, areq, authed, usage0>>
kaVars == <<isRunning, interval, timers, pingUrl, pingInterval, kaLogs, inFlight, pings, kaOp>>
vars == <<rlVars, pollVars, genVars, routeVars, authVars, kaVars>>

Reqs == 1..NumReq
LastClock == 2 * DayLen     \* the clock runs from the first midnight to the second
NoRec == [absent |-> TRUE]
NoHdr == [none |-> TRUE]
NoData == [error |-> FALSE, data |-> NoRec]

\* resetTime.setHours(0, 0, 0, 0): the midnight that starts the day of t
Midnight(t) == t - (t % DayLen)

\* req.apiKey.rateLimit || 100
MaxRequestsFor(rl) == IF rl = 0 THEN DefaultMaxRequests ELSE rl

Row(count, last, max) ==
  [requests_count |-> count, last_reset |-> last, max_requests |-> max]

\* The rows the table may hold when the first request arrives: none, a row of
\* the day before (unused or exhausted), or a fresh row of today.
InitRecs(rl) ==
  {NoRec}
  \cup { Row(c, DayLen - 1, MaxRequestsFor(rl)) : c \in {0, MaxRequestsFor(rl)} }
  \cup { Row(0, DayLen, MaxRequestsFor(rl)) }

RLInit ==
  /\ clock = DayLen
  /\ rateLimit \in 0..MaxRateLimit
  /\ rec \in InitRecs(rateLimit)
  /\ rpc = [r \in Reqs |-> "idle"]
  /\ rnow = [r \in Reqs |-> 0]
  /\ rreset = [r \in Reqs |-> 0]
  /\ rdata = [r \in Reqs |-> NoData]
  /\ routcome = [r \in Reqs |-> "none"]
  /\ rwrites = [r \in Reqs |-> 0]
  /\ rheaders = [r \in Reqs |-> NoHdr]
  /\ rbranch = [r \in Reqs |-> "none"]

\* The clock advances.
Tick ==
  /\ clock < LastClock
  /\ clock' = clock + 1
  /\ UNCHANGED <<rateLimit, rec, rpc, rnow, rreset, rdata, routcome, rwrites, rheaders, rbranch, pollVars, genVars, routeVars, authVars, kaVars>>

\* The handler is entered (req.apiKey is set by authenticateApiKey, which runs
\* before the limiter in the route): now and resetTime are taken, the select
\* is issued.  Requests are numbered in the order they enter the handler.
RLBegin(r) ==
  /\ rpc[r] = "idle"
  /\ \A q \in Reqs : q < r => rpc[q] # "idle"
  /\ rnow' = [rnow EXCEPT ![r] = clock]
  /\ rreset' = [rreset EXCEPT ![r] = Midnight(clock)]
  /\ rpc' = [rpc EXCEPT ![r] = "read"]
  /\ UNCHANGED <<clock, rateLimit, rec, rdata, routcome, rwrites, rheaders, rbranch, pollVars, genVars, routeVars, authVars, kaVars>>

\* Leaving the handler: the locals die.
Finish(r, branch, out, hdr) ==
  /\ rpc' = [rpc EXCEPT ![r] = "done"]
  /\ rbranch' = [rbranch EXCEPT ![r] = branch]
  /\ routcome' = [routcome EXCEPT ![r] = out]
  /\ rheaders' = [rheaders EXCEPT ![r] = hdr]
  /\ rdata' = [rdata EXCEPT ![r] = NoData]
  /\ rnow' = [rnow EXCEPT ![r] = 0]

\* The select ... .single() answers: the row, or an error when there is none.
RLReadOk(r) ==
  /\ rpc[r] = "read"
  /\ rdata' = [rdata EXCEPT ![r] = [error |-> rec = NoRec, data |-> rec]]
  /\ rpc' = [rpc EXCEPT ![r] = "decide"]
  /\ UNCHANGED <<clock, rateLimit, rec, rnow, rreset, routcome, rwrites, rheaders, rbranch, pollVars, genVars, routeVars, authVars, kaVars>>

\* The select answers {data: null, error} although the store may hold a row.
RLReadError(r) ==
  /\ rpc[r] = "read"
  /\ rdata' = [rdata EXCEPT ![r] = [error |-> TRUE, data |-> NoRec]]
  /\ rpc' = [rpc EXCEPT ![r] = "decide"]
  /\ UNCHANGED <<clock, rateLimit, rec, rnow, rreset, routcome, rwrites, rheaders, rbranch, pollVars, genVars, routeVars, authVars, kaVars>>

\* The select throws: the catch block calls next().
RLReadThrow(r) ==
  /\ rpc[r] = "read"
  /\ Finish(r, "catch", "next", NoHdr)
  /\ UNCHANGED <<clock, rateLimit, rec, rreset, rwrites, pollVars, genVars, routeVars, authVars, kaVars>>

\* error || !data || new Date(data.last_reset) < resetTime
NeedsReset(d, resetTime) ==
  IF d.error THEN TRUE
  ELSE IF d.data = NoRec THEN TRUE
  ELSE d.data.last_reset < resetTime

WriteOutcomes == {"ok", "error", "throw"}

\* Create or reset: upsert {requests_count: 1, last_reset: now, max_requests},
\* then next().  w is what the store does with the write.
RLReset(r, w) ==
  /\ rpc[r] = "decide"
  /\ NeedsReset(rdata[r], rreset[r])
  /\ rec' = IF w = "ok" THEN Row(1, rnow[r], MaxRequestsFor(rateLimit)) ELSE rec
  /\ rwrites' = [rwrites EXCEPT ![r] = @ + 1]
  /\ Finish(r, IF w = "throw" THEN "catch" ELSE "reset", "next", NoHdr)
  /\ UNCHANGED <<clock, rateLimit, rreset, pollVars, genVars, routeVars, authVars, kaVars>>

\* Mutant: the comparison lets a request through at the ceiling.
ExceededOffByOne(d) == d.requests_count > d.max_requests

\* data.requests_count >= data.max_requests
Exceeded(d) == d.requests_count >= d.max_requests

\* Mutant: the denied request is counted too.
RLDenyCounting(r) ==
  /\ rpc[r] = "decide"
  /\ ~NeedsReset(rdata[r], rreset[r])
  /\ Exceeded(rdata[r].data)
  /\ rec' = IF rec # NoRec
            THEN [rec EXCEPT !.requests_count = rdata[r].data.requests_count + 1]
            ELSE rec
  /\ rwrites' = [rwrites EXCEPT ![r] = @ + 1]
  /\ Finish(r, "deny", "429", NoHdr)
  /\ UNCHANGED <<clock, rateLimit, rreset, pollVars, genVars, routeVars, authVars, kaVars>>

\* The rate limit is exceeded: 429, nothing written, next() not called.
RLDeny(r) ==
  /\ rpc[r] = "decide"
  /\ ~NeedsReset(rdata[r], rreset[r])
  /\ Exceeded(rdata[r].data)
  /\ Finish(r, "deny", "429", NoHdr)
  /\ UNCHANGED <<clock, rateLimit, rec, rreset, rwrites, pollVars, genVars, routeVars, authVars, kaVars>>

\* The headers of an admitted increment.
Headers(d, resetTime) ==
  [limit |-> d.max_requests,
   remaining |-> d.max_requests - d.requests_count - 1,
   reset |-> resetTime + DayLen]

\* update {requests_count: data.requests_count + 1}, the headers, next().  The
\* value written is computed from the row as it was read.
RLIncrement(r, w) ==
  /\ rpc[r] = "decide"
  /\ ~NeedsReset(rdata[r], rreset[r])
  /\ ~Exceeded(rdata[r].data)
  /\ rec' = IF w = "ok" /\ rec # NoRec
            THEN [rec EXCEPT !.requests_count = rdata[r].data.requests_count + 1]
            ELSE rec
  /\ rwrites' = [rwrites EXCEPT ![r] = @ + 1]
  /\ Finish(r, IF w = "throw" THEN "catch" ELSE "increment", "next",
            IF w = "throw" THEN NoHdr ELSE Headers(rdata[r].data, rreset[r]))
  /\ UNCHANGED <<clock, rateLimit, rreset, pollVars, genVars, routeVars, authVars, kaVars>>

(***************************************************************************)
(* Errors.  ApiError(statusCode, type, param, code) is the class of        *)
(* middleware/errorHandler.js; any other exception carries the HTTP status *)
(* of error.response, 0 when there is none.                                *)
(***************************************************************************)
Absent == "undefined"
Null == "null"

ApiError(statusCode, type, param, code) ==
  [apiError |-> TRUE, statusCode |-> statusCode, type |-> type,
   param |-> param, code |-> code]

OtherError(responseStatus) ==
  [apiError |-> FALSE, statusCode |-> responseStatus, type |-> Absent,
   param |-> Absent, code |-> Absent]

NoError == [apiError |-> FALSE, statusCode |-> 0, type |-> "none",
            param |-> "none", code |-> "none"]

GenerationFailed == ApiError(400, "api_error", Null, "generation_failed")
GenerationTimeout == ApiError(408, "timeout_error", Null, "generation_timeout")

(***************************************************************************)
(* pollTaskCompletion                                                      *)
(***************************************************************************)
Urls == {"https://up/a.png", "https://up/b.jpg"}
AnswerKinds == {"pending", "done_url", "done_nourl", "error", "transport"}
NoPollResult == [kind |-> "none", url |-> "", error |-> NoError]

\* The call is entered with the task URL t: attempt = 0.
PollEnter(t) ==
  /\ ppc' = "loop"
  /\ taskUrl' = t
  /\ attempt' = 0
  /\ pollCalls' = 0
  /\ seen' = {}
  /\ doneAt' = 0
  /\ doneUrl' = ""
  /\ pollResult' = NoPollResult

\* One more axios.get(taskUrl) that got an answer of kind k.
Polled(k) ==
  /\ ppc = "loop"
  /\ attempt < maxAttempts
  /\ pollCalls' = pollCalls + 1
  /\ seen' = seen \cup {k}

\* Mutant: the loop goes round without counting the attempt.
NextAttemptStuck ==
  /\ attempt' = attempt
  /\ UNCHANGED <<ppc, taskUrl, doneAt, doneUrl, pollResult>>

\* The loop goes round: the wait, then attempt++.
NextAttempt ==
  /\ attempt' = attempt + 1
  /\ UNCHANGED <<ppc, taskUrl, doneAt, doneUrl, pollResult>>

\* Mutant: the done branch records the url but does not return.
PollDoneNoReturn(u) ==
  /\ taskUrl # Absent
  /\ Polled("done_url")
  /\ doneAt' = IF doneAt = 0 THEN pollCalls + 1 ELSE doneAt
  /\ doneUrl' = IF doneAt = 0 THEN u ELSE doneUrl
  /\ attempt' = attempt + 1
  /\ UNCHANGED <<ppc, taskUrl, pollResult>>
  /\ UNCHANGED <<rlVars, genVars, routeVars, authVars, kaVars>>

\* data.status === 'done' && data.url: return {ok, status, url}.
PollDone(u) ==
  /\ taskUrl # Absent
  /\ Polled("done_url")
  /\ doneAt' = IF doneAt = 0 THEN pollCalls + 1 ELSE doneAt
  /\ doneUrl' = IF doneAt = 0 THEN u ELSE doneUrl
  /\ ppc' = "returned"
  /\ pollResult' = [kind |-> "ok", url |-> u, error |-> NoError]
  /\ UNCHANGED <<taskUrl, attempt>>
  /\ UNCHANGED <<rlVars, genVars, routeVars, authVars, kaVars>>

\* Mutant: status 'done' is taken as success even without a url.
PollPendingDoneSuffices(k) ==
  /\ taskUrl # Absent
  /\ k \in {"pending", "done_nourl"}
  /\ Polled(k)
  /\ IF k = "done_nourl"
     THEN /\ ppc' = "returned"
          /\ pollResult' = [kind |-> "ok", url |-> "", error |-> NoError]
          /\ UNCHANGED <<taskUrl, attempt, doneAt, doneUrl>>
     ELSE NextAttempt
  /\ UNCHANGED <<rlVars, genVars, routeVars, authVars, kaVars>>

\* Neither branch of the if: a pending status, or 'done' without a url.
PollPending(k) ==
  /\ taskUrl # Absent
  /\ k \in {"pending", "done_nourl"}
  /\ Polled(k)
  /\ NextAttempt
  /\ UNCHANGED <<rlVars, genVars, routeVars, authVars, kaVars>>

\* data.status === 'error': the ApiError is thrown inside the try block of the
\* loop body, so the catch of the same iteration takes it, logs, waits, and
\* the loop goes on.
PollError ==
  /\ taskUrl # Absent
  /\ Polled("error")
  /\ NextAttempt
  /\ UNCHANGED <<rlVars, genVars, routeVars, authVars, kaVars>>

\* Mutant: a transport error ends the loop.
PollTransportAborts ==
  /\ Polled("transport")
  /\ ppc' = "threw"
  /\ pollResult' = [kind |-> "error", url |-> "", error |-> OtherError(0)]
  /\ UNCHANGED <<taskUrl, attempt, doneAt, doneUrl>>
  /\ UNCHANGED <<rlVars, genVars, routeVars, authVars, kaVars>>

\* axios.get throws (network failure, HTTP error status, no task URL), or
\* response.data is undefined: the catch logs, waits, and the loop goes on.
PollTransport ==
  /\ Polled("transport")
  /\ NextAttempt
  /\ UNCHANGED <<rlVars, genVars, routeVars, authVars, kaVars>>

\* Mutant: the loop gives up one attempt early.
PollTimeoutEarly ==
  /\ ppc = "loop"
  /\ ~(attempt < maxAttempts - 1)
  /\ ppc' = "threw"
  /\ pollResult' = [kind |-> "error", url |-> "", error |-> GenerationTimeout]
  /\ UNCHANGED <<taskUrl, attempt, pollCalls, seen, doneAt, doneUrl>>
  /\ UNCHANGED <<rlVars, genVars, routeVars, authVars, kaVars>>

\* The loop condition fails: throw the timeout error.
PollTimeout ==
  /\ ppc = "loop"
  /\ ~(attempt < maxAttempts)
  /\ ppc' = "threw"
  /\ pollResult' = [kind |-> "error", url |-> "", error |-> GenerationTimeout]
  /\ UNCHANGED <<taskUrl, attempt, pollCalls, seen, doneAt, doneUrl>>
  /\ UNCHANGED <<rlVars, genVars, routeVars, authVars, kaVars>>

(***************************************************************************)
(* The catalog (config/constants.js)                                       *)
(***************************************************************************)
PROVIDERS ==
  [dalle |-> [endpoint |-> "/ai-image/dalle", models |-> {"dalle"}],
   magicstudio |-> [endpoint |-> "/ai-image/magicstudio", models |-> {"magicstudio"}],
   sdxl |-> [endpoint |-> "/ai-image/sdxl-beta", models |-> {"sdxl-beta"}],
   flux |-> [endpoint |-> "/ai-image/flux",
             models |-> {"flux", "flux-schnell", "flux-realism", "flux-pro",
                         "flux-1.1-pro", "flux-1.1-pro-ultra",
                         "flux-1.1-pro-ultra-raw"}]]

MODEL_PROVIDERS ==
  [m \in {"dalle", "magicstudio", "sdxl-beta", "flux", "flux-schnell",
          "flux-realism", "flux-pro", "flux-1.1-pro", "flux-1.1-pro-ultra",
          "flux-1.1-pro-ultra-raw"} |->
     CASE m = "dalle" -> "dalle"
       [] m = "magicstudio" -> "magicstudio"
       [] m = "sdxl-beta" -> "sdxl"
       [] OTHER -> "flux"]

FLUX_SIZE_MAP ==
  [s \in {"256x256", "512x512", "1024x1024", "1792x1024", "1024x1792",
          "2048x2048", "hd"} |->
     CASE s = "256x256" -> "flux"
       [] s = "512x512" -> "flux-schnell"
       [] s = "1024x1024" -> "flux-realism"
       [] s = "1792x1024" -> "flux-pro"
       [] s = "1024x1792" -> "flux-1.1-pro"
       [] s = "2048x2048" -> "flux-1.1-pro-ultra"
       [] OTHER -> "flux-1.1-pro-ultra-raw"]

OPENAI_MODEL_MAP ==
  [a \in {"dall-e-3", "dall-e-2", "stable-diffusion-3", "stable-diffusion-2"} |->
     CASE a = "dall-e-3" -> "dalle"
       [] a = "dall-e-2" -> "magicstudio"
       [] a = "stable-diffusion-3" -> "sdxl-beta"
       [] OTHER -> "flux-1.1-pro-ultra"]

SUPPORTED_MODELS ==
  {"dalle", "magicstudio", "sdxl-beta", "flux", "flux-schnell", "flux-realism",
   "flux-pro", "flux-1.1-pro", "flux-1.1-pro-ultra", "flux-1.1-pro-ultra-raw"}

SUPPORTED_SIZES ==
  {"256x256", "512x512", "1024x1024", "1792x1024", "1024x1792", "2048x2048", "hd"}

SUPPORTED_FORMATS == {"url", "b64_json"}

\* actualModel.startsWith('flux'): of the catalog's names, the flux models
StartsWithFlux(m) == m \in PROVIDERS.flux.models

(***************************************************************************)
(* generateImage                                                           *)
(***************************************************************************)
\* const { prompt, n = 1, size = '1024x1024', model = 'dalle',
\*         response_format = 'url' } = params
Default(v, d) == IF v = Absent THEN d ELSE v
ModelOf(p) == Default(p.model, "dalle")
SizeOf(p) == Default(p.size, "1024x1024")
FormatOf(p) == Default(p.response_format, "url")
CountOf(p) == p.n     \* the route always passes n: numImages (1 when absent)

\* Names every object literal inherits from Object.prototype, and the
\* property key the inherited value turns into when it is used as an index.
ObjectPrototype == {"constructor", "toString", "__proto__"}
InheritedKey(name) ==
  CASE name = "constructor" -> "function Object() { [native code] }"
    [] name = "toString" -> "function toString() { [native code] }"
    [] OTHER -> "[object Object]"

\* OPENAI_MODEL_MAP[model]: an own entry, an inherited one, or undefined.
AliasLookup(model) ==
  IF model \in DOMAIN OPENAI_MODEL_MAP THEN OPENAI_MODEL_MAP[model]
  ELSE IF model \in ObjectPrototype THEN InheritedKey(model)
  ELSE Absent

\* Mutant: the alias table is not consulted.
ActualModelNoAlias(model) == model

\* OPENAI_MODEL_MAP[model] || model
ActualModel(model) == Default(AliasLookup(model), model)

\* Mutant: the provider is looked up under the model's own name.
ProviderNameOwn(actualModel) ==
  IF actualModel \in DOMAIN PROVIDERS THEN actualModel ELSE Absent

\* MODEL_PROVIDERS[actualModel], Absent when there is no such key (actualModel
\* is never a name inherited from Object.prototype: see AliasLookup)
ProviderName(actualModel) ==
  IF actualModel \in DOMAIN MODEL_PROVIDERS THEN MODEL_PROVIDERS[actualModel] ELSE Absent

\* Mutant: the variant is always chosen by size.
VariantBySize(actualModel, size) ==
  IF ProviderName(actualModel) = "flux"
  THEN IF size \in DOMAIN FLUX_SIZE_MAP THEN FLUX_SIZE_MAP[size]
       ELSE "flux-1.1-pro-ultra"
  ELSE Absent

\* The model= parameter added to the submit URL, Absent when none is added.
Variant(actualModel, size) ==
  IF ProviderName(actualModel) = "flux"
  THEN IF StartsWithFlux(actualModel)
       THEN actualModel
       ELSE IF size \in DOMAIN FLUX_SIZE_MAP THEN FLUX_SIZE_MAP[size]
            ELSE "flux-1.1-pro-ultra"
  ELSE Absent

\* The locals generateImage has when it issues the submit request.
Resolve(p) ==
  LET actualModel == ActualModel(ModelOf(p))
      providerName == ProviderName(actualModel)
  IN [actualModel |-> actualModel,
      providerName |-> providerName,
      endpoint |-> PROVIDERS[providerName].endpoint,
      variant |-> Variant(actualModel, SizeOf(p))]

NoTarget == [actualModel |-> Absent, providerName |-> Absent,
             endpoint |-> Absent, variant |-> Absent]

NoResult == [kind |-> "none", data |-> <<>>, error |-> NoError]

\* The arguments the model calls generateImage with.
GenModels == {"dalle", "flux-pro", "stable-diffusion-2", "no-such-model"}
GenParams ==
  [prompt : {"a cat"}, n : 1..MaxN, size : {Absent}, model : {Absent, "dall-e-3"},
   response_format : {Absent, "b64_json"}, keyId : {Absent, "key-1"}]
  \cup [prompt : {"a cat"}, n : {1}, size : {Absent, "hd"}, model : GenModels,
        response_format : {"url"}, keyId : {"key-1"}]
  \cup [prompt : {""}, n : {1}, size : {Absent}, model : {Absent},
        response_format : {Absent}, keyId : {Absent, "key-1"}]

\* if (!prompt) throw ApiError(400, ..., 'prompt', 'param_required')
GenRejectPrompt ==
  /\ gpc = "start"
  /\ params.prompt = ""
  /\ gerr' = ApiError(400, "invalid_request_error", "prompt", "param_required")
  /\ gpc' = "catch"
  /\ UNCHANGED <<params, resolved, upOutcome, b64Outcome, ack, submits, downloads, puts, tempFiles, imageUrl, logs, gresult>>
  /\ UNCHANGED <<rlVars, pollVars, routeVars, authVars, kaVars>>

\* if (!providerName) throw ApiError(400, ..., 'model', 'param_invalid')
GenRejectModel ==
  /\ gpc = "start"
  /\ params.prompt # ""
  /\ ProviderName(ActualModel(ModelOf(params))) = Absent
  /\ gerr' = ApiError(400, "invalid_request_error", "model", "param_invalid")
  /\ gpc' = "catch"
  /\ UNCHANGED <<params, resolved, upOutcome, b64Outcome, ack, submits, downloads, puts, tempFiles, imageUrl, logs, gresult>>
  /\ UNCHANGED <<rlVars, pollVars, routeVars, authVars, kaVars>>

\* The request passes the prompt and model checks: the submit URL is built.
Submittable ==
  /\ gpc = "start"
  /\ params.prompt # ""
  /\ ProviderName(ActualModel(ModelOf(params))) # Absent

\* The submit request is acknowledged with ok: pollTaskCompletion is called
\* with data.task_url (t is Absent when the acknowledgement carries none).
GenSubmitOk(t) ==
  /\ Submittable
  /\ ack' = "ok"
  /\ resolved' = Resolve(params)
  /\ submits' = submits + 1
  /\ gpc' = "poll"
  /\ PollEnter(t)
  /\ UNCHANGED <<params, upOutcome, b64Outcome, downloads, puts, tempFiles, imageUrl, logs, gerr, gresult>>
  /\ UNCHANGED <<rlVars, routeVars, authVars, kaVars>>

\* Mutant: the ok flag of the acknowledgement is not looked at.
GenSubmitNotOkIgnored ==
  /\ Submittable
  /\ ack' = "not_ok"
  /\ resolved' = Resolve(params)
  /\ submits' = submits + 1
  /\ gpc' = "poll"
  /\ PollEnter(Absent)
  /\ UNCHANGED <<params, upOutcome, b64Outcome, downloads, puts, tempFiles, imageUrl, logs, gerr, gresult>>
  /\ UNCHANGED <<rlVars, routeVars, authVars, kaVars>>

\* if (!jobResponse.data.ok) throw ApiError(400, 'api_error', null,
\* 'generation_failed')
GenSubmitNotOk ==
  /\ Submittable
  /\ ack' = "not_ok"
  /\ resolved' = Resolve(params)
  /\ submits' = submits + 1
  /\ gerr' = GenerationFailed
  /\ gpc' = "catch"
  /\ UNCHANGED <<params, upOutcome, b64Outcome, downloads, puts, tempFiles, imageUrl, logs, gresult>>
  /\ UNCHANGED <<rlVars, pollVars, routeVars, authVars, kaVars>>

\* axios.get(apiUrl) throws: an HTTP error status s, or no response (s = 0).
GenSubmitThrow(s) ==
  /\ Submittable
  /\ ack' = "throw"
  /\ resolved' = Resolve(params)
  /\ submits' = submits + 1
  /\ gerr' = OtherError(s)
  /\ gpc' = "catch"
  /\ UNCHANGED <<params, upOutcome, b64Outcome, downloads, puts, tempFiles, imageUrl, logs, gresult>>
  /\ UNCHANGED <<rlVars, pollVars, routeVars, authVars, kaVars>>

\* pollTaskCompletion returned: uploadToStorage(image.url, ...) is next.
GenPollReturned ==
  /\ gpc = "poll"
  /\ ppc = "returned"
  /\ gpc' = "upload"
  /\ UNCHANGED <<params, resolved, upOutcome, b64Outcome, ack, submits, downloads, puts, tempFiles, imageUrl, logs, gerr, gresult>>
  /\ UNCHANGED <<rlVars, pollVars, routeVars, authVars, kaVars>>

\* pollTaskCompletion threw: the catch block takes the error.
GenPollThrew ==
  /\ gpc = "poll"
  /\ ppc = "threw"
  /\ gerr' = pollResult.error
  /\ gpc' = "catch"
  /\ UNCHANGED <<params, resolved, upOutcome, b64Outcome, ack, submits, downloads, puts, tempFiles, imageUrl, logs, gresult>>
  /\ UNCHANGED <<rlVars, pollVars, routeVars, authVars, kaVars>>

(***************************************************************************)
(* uploadToStorage and imageToBase64                                       *)
(***************************************************************************)
SourceUrl(u) == [kind |-> "source", of |-> u]
SignedUrl(u) == [kind |-> "signed", of |-> u]
NoUrl == [kind |-> "none", of |-> ""]

UploadOutcomes ==
  {"ok", "download_fail", "write_fail", "put_fail", "sign_fail",
   "audit_error", "audit_throw"}

\* Mutant: the catch block returns nothing instead of sourceUrl.
uploadToStorageNoFallback(o, sourceUrl) ==
  [url |-> IF o \in {"ok", "audit_error"} THEN SignedUrl(sourceUrl) ELSE NoUrl,
   downloads |-> 1,
   puts |-> IF o \in {"download_fail", "write_fail"} THEN 0 ELSE 1,
   tempLeft |-> IF o \in {"ok", "audit_error", "download_fail"} THEN 0 ELSE 1]

\* What uploadToStorage(sourceUrl, ...) returns and leaves behind when the
\* environment behaves as o: the download throws, the write stream fails, the
\* storage upload or createSignedUrl answers an error, the insert into images
\* answers an error (ignored) or throws.  unlinkSync is reached only on the
\* path that returns the signed URL; the catch returns sourceUrl.
uploadToStorage(o, sourceUrl) ==
  [url |-> IF o \in {"ok", "audit_error"} THEN SignedUrl(sourceUrl)
           ELSE SourceUrl(sourceUrl),
   downloads |-> 1,
   puts |-> IF o \in {"download_fail", "write_fail"} THEN 0 ELSE 1,
   tempLeft |-> IF o \in {"ok", "audit_error", "download_fail"} THEN 0 ELSE 1]

Base64Outcomes == {"ok", "download_fail", "write_fail", "read_fail"}

ProcessingFailed == ApiError(500, "processing_error", Null, "image_processing_failed")

\* Mutant: a failed download or encoding is not reported.
imageToBase64Lenient(o, url) ==
  [ok |-> TRUE,
   b64 |-> [kind |-> "base64", of |-> url],
   error |-> ProcessingFailed,
   downloads |-> 1,
   tempLeft |-> IF o \in {"ok", "download_fail"} THEN 0 ELSE 1]

\* What imageToBase64(url) returns or throws, and leaves behind.
imageToBase64(o, url) ==
  [ok |-> o = "ok",
   b64 |-> [kind |-> "base64", of |-> url],
   error |-> ProcessingFailed,
   downloads |-> 1,
   tempLeft |-> IF o \in {"ok", "download_fail"} THEN 0 ELSE 1]

\* uploadToStorage has returned (it never throws).
GenUpload(o) ==
  /\ gpc = "upload"
  /\ LET res == uploadToStorage(o, pollResult.url) IN
       /\ imageUrl' = res.url
       /\ downloads' = downloads + res.downloads
       /\ puts' = puts + res.puts
       /\ tempFiles' = tempFiles + res.tempLeft
  /\ upOutcome' = o
  /\ gpc' = "log"
  /\ UNCHANGED <<params, resolved, b64Outcome, ack, submits, logs, gerr, gresult>>
  /\ UNCHANGED <<rlVars, pollVars, routeVars, authVars, kaVars>>

\* Mutant: one entry whatever n is.
DataSingle(n, entry) == [i \in 1..1 |-> entry]

\* Array(n).fill().map(() => entry)
Data(n, entry) == [i \in 1..n |-> entry]

\* Mutant: an exception of the insert is not caught.
GenLogSuccessUncaught(lo) ==
  /\ gpc = "log"
  /\ lo \in WriteOutcomes
  /\ logs' = Append(logs, [status |-> "success", outcome |-> lo])
  /\ IF lo = "throw"
     THEN /\ gpc' = "catch"
          /\ gerr' = OtherError(0)
          /\ UNCHANGED gresult
     ELSE /\ UNCHANGED gerr
          /\ IF FormatOf(params) = "b64_json"
             THEN /\ gpc' = "b64"
                  /\ UNCHANGED gresult
             ELSE /\ gpc' = "done"
                  /\ gresult' = [kind |-> "ok",
                                 data |-> Data(CountOf(params), [url |-> imageUrl]),
                                 error |-> NoError]
  /\ UNCHANGED <<params, resolved, upOutcome, b64Outcome, ack, submits, downloads, puts, tempFiles, imageUrl>>
  /\ UNCHANGED <<rlVars, pollVars, routeVars, authVars, kaVars>>

\* The insert into request_logs with status 'success' (lo: what the store does
\* with it; a throw is caught and logged), then, for the url format, the
\* response.
GenLogSuccess(lo) ==
  /\ gpc = "log"
  /\ lo \in WriteOutcomes
  /\ logs' = Append(logs, [status |-> "success", outcome |-> lo])
  /\ IF FormatOf(params) = "b64_json"
     THEN /\ gpc' = "b64"
          /\ UNCHANGED gresult
     ELSE /\ gpc' = "done"
          /\ gresult' = [kind |-> "ok",
                         data |-> Data(CountOf(params), [url |-> imageUrl]),
                         error |-> NoError]
  /\ UNCHANGED <<params, resolved, upOutcome, b64Outcome, ack, submits, downloads, puts, tempFiles, imageUrl, gerr>>
  /\ UNCHANGED <<rlVars, pollVars, routeVars, authVars, kaVars>>

\* response_format b64_json: imageToBase64(image.url), then the response.
GenBase64(o) ==
  /\ gpc = "b64"
  /\ b64Outcome' = o
  /\ LET res == imageToBase64(o, pollResult.url) IN
       /\ downloads' = downloads + res.downloads
       /\ tempFiles' = tempFiles + res.tempLeft
       /\ IF res.ok
          THEN /\ gpc' = "done"
               /\ gresult' = [kind |-> "ok",
                              data |-> Data(CountOf(params), [b64_json |-> res.b64]),
                              error |-> NoError]
               /\ UNCHANGED gerr
          ELSE /\ gpc' = "catch"
               /\ gerr' = res.error
               /\ UNCHANGED gresult
  /\ UNCHANGED <<params, resolved, upOutcome, ack, submits, puts, imageUrl, logs>>
  /\ UNCHANGED <<rlVars, pollVars, routeVars, authVars, kaVars>>

\* What the catch block throws: an ApiError as it is, anything else wrapped as
\* ApiError(error.response?.status || 500, 'api_error', null, 'generation_error').
Rethrown(e) ==
  IF e.apiError THEN e
  ELSE ApiError(IF e.statusCode = 0 THEN 500 ELSE e.statusCode,
                "api_error", Null, "generation_error")

\* The catch block: the insert into request_logs with status 'error' when
\* params.keyId is set, then the throw.
GenCatch(lo) ==
  /\ gpc = "catch"
  /\ lo \in WriteOutcomes
  /\ logs' = IF params.keyId # Absent
             THEN Append(logs, [status |-> "error", outcome |-> lo])
             ELSE logs
  /\ gresult' = [kind |-> "error", data |-> <<>>, error |-> Rethrown(gerr)]
  /\ gpc' = "done"
  /\ UNCHANGED <<params, resolved, upOutcome, b64Outcome, ack, submits, downloads, puts, tempFiles, imageUrl, gerr>>
  /\ UNCHANGED <<rlVars, pollVars, routeVars, authVars, kaVars>>

(***************************************************************************)
(* authenticateApiKey and the keys table                                   *)
(***************************************************************************)
\* JavaScript values a column or a property may hold.
Num(k) == [kind |-> "num", v |-> k]
Undefined == [kind |-> "undefined", v |-> 0]
NaN == [kind |-> "nan", v |-> 0]
JsonNull == [kind |-> "null", v |-> 0]

\* x + 1: a number plus one, null + 1 is 1, anything else is NaN.
PlusOne(x) ==
  CASE x.kind = "num" -> Num(x.v + 1)
    [] x.kind = "null" -> Num(1)
    [] OTHER -> NaN

\* What JSON.stringify sends for a property value: NaN becomes null.
Json(x) == IF x.kind = "nan" THEN JsonNull ELSE x

KeyRow(exists, revoked, usage) ==
  [exists |-> exists, revoked |-> revoked, usage_count |-> usage]

NoKeyData == [error |-> FALSE, found |-> FALSE, revoked |-> FALSE,
              usage_count |-> Undefined]

(***************************************************************************)
(* POST /v1/images/generations and the error middleware                    *)
(***************************************************************************)
\* The values of req.body.n: absent, a JSON number, or a JSON string.
NoN == [kind |-> "absent", num |-> 0, str |-> ""]
NumN(k) == [kind |-> "num", num |-> k, str |-> ""]
StrN(t) == [kind |-> "str", num |-> 0, str |-> t]

\* The test `n ?`: 0 and the empty string are falsy, like an absent n.
Truthy(n) ==
  CASE n.kind = "absent" -> FALSE
    [] n.kind = "num" -> n.num # 0
    [] OTHER -> n.str # ""

\* parseInt(n): a number as it is; of the strings of the model, the decimal
\* ones as their value and the others as NaN.
DecimalStrings == [t \in {"0", "7", "11"} |->
                     CASE t = "0" -> 0 [] t = "7" -> 7 [] OTHER -> 11]
ParseInt(n) ==
  IF n.kind = "num" THEN [nan |-> FALSE, v |-> n.num]
  ELSE IF n.str \in DOMAIN DecimalStrings THEN [nan |-> FALSE, v |-> DecimalStrings[n.str]]
  ELSE [nan |-> TRUE, v |-> 0]

\* const numImages = n ? parseInt(n) : 1
NumImages(n) == IF Truthy(n) THEN ParseInt(n) ELSE [nan |-> FALSE, v |-> 1]

InvalidParam(param, code) == ApiError(400, "invalid_request_error", param, code)

\* The input validation of the route: the error it throws, or NoError.
Validate(b) ==
  IF b.prompt \in {Absent, ""}
  THEN InvalidParam("prompt", "param_required")
  ELSE IF NumImages(b.n).nan \/ NumImages(b.n).v < 1 \/ NumImages(b.n).v > MaxImages
  THEN InvalidParam("n", "param_invalid")
  ELSE IF b.size \notin {Absent, ""} /\ b.size \notin SUPPORTED_SIZES
  THEN InvalidParam("size", "param_invalid")
  ELSE IF b.response_format \notin {Absent, ""} /\ b.response_format \notin SUPPORTED_FORMATS
  THEN InvalidParam("response_format", "param_invalid")
  ELSE IF /\ b.model \notin {Absent, ""}
          /\ b.model \notin SUPPORTED_MODELS
          /\ AliasLookup(b.model) = Absent
  THEN InvalidParam("model", "param_invalid")
  ELSE NoError

NoResponse == [status |-> 0, data |-> <<>>, error |-> NoError]

\* errorHandler: res.status(err.statusCode || 500).json({error: {type:
\* err.type || 'server_error', param: err.param || null, code: err.code || null}})
errorHandler(err) ==
  [status |-> IF err.statusCode = 0 THEN 500 ELSE err.statusCode,
   data |-> <<>>,
   error |-> [message |-> "text",
              type |-> Default(err.type, "server_error"),
              param |-> Default(err.param, Null),
              code |-> Default(err.code, Null)]]

\* The validation throws: catch, next(error), errorHandler.
RouteReject ==
  /\ rtpc = "start"
  /\ Validate(body) # NoError
  /\ response' = errorHandler(Validate(body))
  /\ rtpc' = "done"
  /\ UNCHANGED <<body, rlVars, pollVars, genVars, authVars, kaVars>>

\* The validation passes: generateImage({prompt, n: numImages, size, model,
\* response_format, keyId: req.apiKey.id}) is called.
RouteCall ==
  /\ rtpc = "start"
  /\ Validate(body) = NoError
  /\ gpc = "idle"
  /\ params' = [prompt |-> body.prompt, n |-> NumImages(body.n).v,
                size |-> body.size, model |-> body.model,
                response_format |-> body.response_format, keyId |-> "key-1"]
  /\ gpc' = "start"
  /\ rtpc' = "await"
  /\ UNCHANGED <<ack, submits, downloads, puts, tempFiles, imageUrl, logs, gerr,
                 gresult, resolved, upOutcome, b64Outcome>>
  /\ UNCHANGED <<body, response, rlVars, pollVars, authVars, kaVars>>

\* generateImage has returned (200 with its result) or thrown (errorHandler).
RouteRespond ==
  /\ rtpc = "await"
  /\ gpc = "done"
  /\ response' = IF gresult.kind = "ok"
                 THEN [status |-> 200, data |-> gresult.data, error |-> NoError]
                 ELSE errorHandler(gresult.error)
  /\ rtpc' = "done"
  /\ UNCHANGED <<body, rlVars, pollVars, genVars, authVars, kaVars>>

(***************************************************************************)
(* authenticateApiKey: the actions                                         *)
(***************************************************************************)
AuthHeaders == {"missing", "not_bearer", "bad_key_format", "key"}

ErrorJson(status, type, param, code) ==
  [status |-> status, data |-> <<>>,
   error |-> [message |-> "text", type |-> type, param |-> param, code |-> code]]

Unauthorized(code) == ErrorJson(401, "invalid_request_error", "authorization", code)

AuthServiceError == ErrorJson(500, "server_error", Null, "authentication_error")

\* A request with header h enters the middleware, after the one before it
\* has left it.
AuthArrive(h) ==
  /\ apc \in {"idle", "next", "done"}
  /\ areq < NumAuth
  /\ areq' = areq + 1
  /\ header' = h
  /\ adata' = NoKeyData
  /\ response' = NoResponse
  /\ apc' = "start"
  /\ UNCHANGED <<path, keyRow, authed, usage0, rtpc, body>>
  /\ UNCHANGED <<rlVars, pollVars, genVars, kaVars>>

\* The response is sent and next() is not called.
AuthAnswer(resp) ==
  /\ response' = resp
  /\ apc' = "done"
  /\ UNCHANGED <<path, header, keyRow, adata, areq, authed, usage0, rtpc, body>>
  /\ UNCHANGED <<rlVars, pollVars, genVars, kaVars>>

\* !authHeader || !authHeader.startsWith('Bearer ')
AuthRejectHeader ==
  /\ apc = "start"
  /\ header \in {"missing", "not_bearer"}
  /\ AuthAnswer(Unauthorized("invalid_api_key"))

\* !apiKey.startsWith('feather-ops-apikey-')
AuthRejectFormat ==
  /\ apc = "start"
  /\ header = "bad_key_format"
  /\ AuthAnswer(Unauthorized("invalid_api_key_format"))

\* select('id, rate_limit, revoked') ... .single() answers: the three columns
\* of the row, or an error when there is no row.  usage_count is not among
\* the columns, so data.usage_count is undefined.
AuthSelectOk ==
  /\ apc = "start"
  /\ header = "key"
  /\ adata' = [error |-> ~keyRow.exists, found |-> keyRow.exists,
               revoked |-> keyRow.exists /\ keyRow.revoked,
               usage_count |-> Undefined]
  /\ apc' = "decide"
  /\ UNCHANGED <<path, header, keyRow, areq, authed, usage0, routeVars>>
  /\ UNCHANGED <<rlVars, pollVars, genVars, kaVars>>

\* The select answers {data: null, error} whatever the table holds.
AuthSelectError ==
  /\ apc = "start"
  /\ header = "key"
  /\ adata' = [error |-> TRUE, found |-> FALSE, revoked |-> FALSE,
               usage_count |-> Undefined]
  /\ apc' = "decide"
  /\ UNCHANGED <<path, header, keyRow, areq, authed, usage0, routeVars>>
  /\ UNCHANGED <<rlVars, pollVars, genVars, kaVars>>

\* The select throws: the catch block answers 500 authentication_error.
AuthSelectThrow ==
  /\ apc = "start"
  /\ header = "key"
  /\ AuthAnswer(AuthServiceError)

\* error || !data
AuthRejectUnknown ==
  /\ apc = "decide"
  /\ adata.error \/ ~adata.found
  /\ AuthAnswer(Unauthorized("invalid_api_key"))

\* Mutant: a revoked key is let through.
AuthRevokedPasses ==
  /\ apc = "decide"
  /\ ~adata.error
  /\ adata.found
  /\ adata.revoked
  /\ apc' = "next"
  /\ UNCHANGED <<path, header, keyRow, adata, areq, authed, usage0, routeVars>>
  /\ UNCHANGED <<rlVars, pollVars, genVars, kaVars>>

\* data.revoked
AuthRejectRevoked ==
  /\ apc = "decide"
  /\ ~adata.error
  /\ adata.found
  /\ adata.revoked
  /\ AuthAnswer(Unauthorized("revoked_api_key"))

\* req.apiKey is set, then update({usage_count: data.usage_count + 1}) is
\* awaited (w: the store applies it, answers an error, which is not looked
\* at, or throws), then next().
AuthUpdate(w) ==
  /\ apc = "decide"
  /\ ~adata.error
  /\ adata.found
  /\ ~adata.revoked
  /\ w \in {"ok", "error", "throw"}
  /\ authed' = authed + 1
  /\ keyRow' = IF w = "ok"
               THEN [keyRow EXCEPT !.usage_count = Json(PlusOne(adata.usage_count))]
               ELSE keyRow
  /\ IF w = "throw"
     THEN /\ response' = AuthServiceError
          /\ apc' = "done"
     ELSE /\ UNCHANGED response
          /\ apc' = "next"
  /\ UNCHANGED <<path, header, adata, areq, usage0, rtpc, body>>
  /\ UNCHANGED <<rlVars, pollVars, genVars, kaVars>>

(***************************************************************************)
(* The application: route matching and the chain of middlewares            *)
(***************************************************************************)
Generations == "POST /v1/images/generations"
UnknownRoute == "GET /v1/images/nothing"

\* No route matches and no 404 middleware is mounted: the framework's own
\* final handler answers 404 with an HTML page.
NotFoundPage == [status |-> 404, data |-> <<>>, error |-> [html |-> "Cannot GET"]]

\* The 429 of the rate limiter.
RateLimitExceeded == ErrorJson(429, "rate_limit_error", Null, "rate_limit_exceeded")

AppNotFound ==
  /\ rtpc = "idle"
  /\ apc = "idle"
  /\ path # Generations
  /\ response' = NotFoundPage
  /\ rtpc' = "done"
  /\ UNCHANGED <<body, rlVars, pollVars, genVars, authVars, kaVars>>

\* The request matches POST /generations: authenticateApiKey is entered.
AppRoute(h) ==
  /\ path = Generations
  /\ areq = 0
  /\ AuthArrive(h)

\* next() of authenticateApiKey: the rate limiter is entered.
AppLimiter ==
  /\ apc = "next"
  /\ RLBegin(1)

\* The rate limiter has left: after next() the route handler is entered,
\* after the denial the 429 is the response.
AppLimiterLeft ==
  /\ rpc[1] = "done"
  /\ rtpc = "idle"
  /\ IF routcome[1] = "next"
     THEN /\ rtpc' = "start"
          /\ UNCHANGED response
     ELSE /\ rtpc' = "done"
          /\ response' = RateLimitExceeded
  /\ UNCHANGED <<body, rlVars, pollVars, genVars, authVars, kaVars>>

(***************************************************************************)
(* Specifications                                                          *)
(***************************************************************************)
\* No call of pollTaskCompletion is in progress.
PollIdle ==
  /\ ppc = "idle"
  /\ taskUrl = Absent
  /\ attempt = 0
  /\ pollCalls = 0
  /\ seen = {}
  /\ doneAt = 0
  /\ doneUrl = ""
  /\ pollResult = NoPollResult

\* No call of generateImage is in progress.
GenIdle ==
  /\ gpc = "idle"
  /\ params = [prompt |-> "", n |-> 1, size |-> Absent, model |-> Absent,
               response_format |-> Absent, keyId |-> Absent]
  /\ ack = "none"
  /\ submits = 0
  /\ downloads = 0
  /\ puts = 0
  /\ tempFiles = 0
  /\ imageUrl = NoUrl
  /\ logs = <<>>
  /\ gerr = NoError
  /\ gresult = NoResult
  /\ resolved = NoTarget
  /\ upOutcome = "none"
  /\ b64Outcome = "none"

\* No POST /generations is being handled.
RouteIdle ==
  /\ rtpc = "idle"
  /\ body = [prompt |-> Absent, n |-> NoN, size |-> Absent,
             response_format |-> Absent, model |-> Absent]
  /\ response = NoResponse

\* No request is at authenticateApiKey; the credential's row is unused.
AuthIdle ==
  /\ apc = "idle"
  /\ path = "none"
  /\ header = "none"
  /\ keyRow = KeyRow(TRUE, FALSE, Num(0))
  /\ adata = NoKeyData
  /\ areq = 0
  /\ authed = 0
  /\ usage0 = 0

\* The KeepAliveService as its constructor leaves it; no timer exists.
KaIdle ==
  /\ isRunning = FALSE
  /\ interval = 0
  /\ timers = {}
  /\ pingUrl = Null
  /\ pingInterval = 5 * 60 * 1000
  /\ kaLogs = <<>>
  /\ inFlight = {}
  /\ pings = 0
  /\ kaOp = [op |-> "none", wasRunning |-> FALSE]

\* No request is at the rate limiter.
RLIdle ==
  /\ RLInit
  /\ rateLimit = 1
  /\ rec = NoRec

\* Requests for one credential reach the rate limiter in any interleaving; the
\* ledger store may answer a call with an error or throw.
Init == RLInit /\ PollIdle /\ GenIdle /\ RouteIdle /\ AuthIdle /\ KaIdle

Next ==
  \/ Tick
  \/ \E r \in Reqs : RLBegin(r)
  \/ \E r \in Reqs : RLReadOk(r)
  \/ \E r \in Reqs : RLReadError(r)
  \/ \E r \in Reqs : RLReadThrow(r)
  \/ \E r \in Reqs, w \in WriteOutcomes : RLReset(r, w)
  \/ \E r \in Reqs : RLDeny(r)
  \/ \E r \in Reqs, w \in WriteOutcomes : RLIncrement(r, w)

Spec == Init /\ [][Next]_vars

\* Requests in any interleaving, with a ledger store that answers every call.
NextConc ==
  \/ Tick
  \/ \E r \in Reqs : RLBegin(r)
  \/ \E r \in Reqs : RLReadOk(r)
  \/ \E r \in Reqs : RLReset(r, "ok")
  \/ \E r \in Reqs : RLDeny(r)
  \/ \E r \in Reqs : RLIncrement(r, "ok")

SpecConc == Init /\ [][NextConc]_vars

\* The same requests handled strictly one after another, by a ledger store
\* that answers every call.
NoneInFlight(r) == \A q \in Reqs \ {r} : rpc[q] \in {"idle", "done"}

NextSeq ==
  \/ Tick
  \/ \E r \in Reqs : NoneInFlight(r) /\ RLBegin(r)
  \/ \E r \in Reqs : NoneInFlight(r) /\ RLReadOk(r)
  \/ \E r \in Reqs : NoneInFlight(r) /\ RLReset(r, "ok")
  \/ \E r \in Reqs : NoneInFlight(r) /\ RLDeny(r)
  \/ \E r \in Reqs : NoneInFlight(r) /\ RLIncrement(r, "ok")

SpecSeq == Init /\ [][NextSeq]_vars

\* One call of pollTaskCompletion, against any upstream.
InitPoll ==
  /\ RLIdle
  /\ GenIdle
  /\ RouteIdle
  /\ AuthIdle
  /\ KaIdle
  /\ ppc = "loop"
  /\ taskUrl \in {"https://up/task/1", Absent}
  /\ attempt = 0
  /\ pollCalls = 0
  /\ seen = {}
  /\ doneAt = 0
  /\ doneUrl = ""
  /\ pollResult = NoPollResult

NextPoll ==
  \/ \E u \in Urls : PollDone(u)
  \/ \E k \in AnswerKinds : PollPending(k)
  \/ PollError
  \/ PollTransport
  \/ PollTimeout

SpecPoll == InitPoll /\ [][NextPoll]_vars

\* One call of generateImage, against any upstream, storage and log store.
InitGen ==
  /\ RLIdle
  /\ PollIdle
  /\ RouteIdle
  /\ AuthIdle
  /\ KaIdle
  /\ gpc = "start"
  /\ params \in GenParams
  /\ ack = "none"
  /\ submits = 0
  /\ downloads = 0
  /\ puts = 0
  /\ tempFiles = 0
  /\ imageUrl = NoUrl
  /\ logs = <<>>
  /\ gerr = NoError
  /\ gresult = NoResult
  /\ resolved = NoTarget
  /\ upOutcome = "none"
  /\ b64Outcome = "none"

HttpStatuses == {0, 502}

NextGen ==
  \/ GenRejectPrompt
  \/ GenRejectModel
  \/ \E t \in {"https://up/task/1", Absent} : GenSubmitOk(t)
  \/ GenSubmitNotOk
  \/ \E s \in HttpStatuses : GenSubmitThrow(s)
  \/ \E u \in Urls : PollDone(u)
  \/ \E k \in AnswerKinds : PollPending(k)
  \/ PollError
  \/ PollTransport
  \/ PollTimeout
  \/ GenPollReturned
  \/ GenPollThrew
  \/ \E o \in UploadOutcomes : GenUpload(o)
  \/ \E lo \in WriteOutcomes : GenLogSuccess(lo)
  \/ \E o \in Base64Outcomes : GenBase64(o)
  \/ \E lo \in WriteOutcomes : GenCatch(lo)

SpecGen == InitGen /\ [][NextGen]_vars

\* One call of generateImage against any upstream, storage and log store,
\* where every external call returns: a step that is possible is taken.
LiveParams ==
  [prompt : {"a cat"}, n : {1}, size : {Absent}, model : {Absent, "no-such-model"},
   response_format : {"url", "b64_json"}, keyId : {"key-1"}]

InitLive ==
  /\ RLIdle
  /\ PollIdle
  /\ RouteIdle
  /\ AuthIdle
  /\ KaIdle
  /\ gpc = "start"
  /\ params \in LiveParams
  /\ ack = "none"
  /\ submits = 0
  /\ downloads = 0
  /\ puts = 0
  /\ tempFiles = 0
  /\ imageUrl = NoUrl
  /\ logs = <<>>
  /\ gerr = NoError
  /\ gresult = NoResult
  /\ resolved = NoTarget
  /\ upOutcome = "none"
  /\ b64Outcome = "none"

NextLive ==
  \/ GenRejectModel
  \/ \E t \in {"https://up/task/1", Absent} : GenSubmitOk(t)
  \/ GenSubmitNotOk
  \/ \E s \in HttpStatuses : GenSubmitThrow(s)
  \/ \E u \in Urls : PollDone(u)
  \/ \E k \in AnswerKinds : PollPending(k)
  \/ PollError
  \/ PollTransport
  \/ PollTimeout
  \/ GenPollReturned
  \/ GenPollThrew
  \/ \E o \in UploadOutcomes : GenUpload(o)
  \/ \E lo \in WriteOutcomes : GenLogSuccess(lo)
  \/ \E o \in Base64Outcomes : GenBase64(o)
  \/ \E lo \in WriteOutcomes : GenCatch(lo)

SpecLive == InitLive /\ [][NextLive]_vars /\ WF_vars(NextLive)

\* One call of generateImage with any n the route lets through, against an
\* upstream that answers the first EarlyPolls polls and whose transport fails
\* from then on, and any storage and log store.
OrchParams ==
  [prompt : {"a cat"}, n : 1..MaxImages, size : {Absent}, model : {Absent},
   response_format : {Absent, "url", "b64_json"}, keyId : {Absent, "key-1"}]
  \cup [prompt : {"", "a cat"}, n : {1}, size : {Absent}, model : {"no-such-model"},
        response_format : {Absent}, keyId : {Absent, "key-1"}]

InitOrch ==
  /\ RLIdle
  /\ PollIdle
  /\ RouteIdle
  /\ AuthIdle
  /\ KaIdle
  /\ gpc = "start"
  /\ params \in OrchParams
  /\ ack = "none"
  /\ submits = 0
  /\ downloads = 0
  /\ puts = 0
  /\ tempFiles = 0
  /\ imageUrl = NoUrl
  /\ logs = <<>>
  /\ gerr = NoError
  /\ gresult = NoResult
  /\ resolved = NoTarget
  /\ upOutcome = "none"
  /\ b64Outcome = "none"

NextOrch ==
  \/ GenRejectPrompt
  \/ GenRejectModel
  \/ GenSubmitOk("https://up/task/1")
  \/ GenSubmitNotOk
  \/ \E s \in HttpStatuses : GenSubmitThrow(s)
  \/ \E u \in Urls : attempt < EarlyPolls /\ PollDone(u)
  \/ \E k \in AnswerKinds : attempt < EarlyPolls /\ PollPending(k)
  \/ attempt < EarlyPolls /\ PollError
  \/ PollTransport
  \/ PollTimeout
  \/ GenPollReturned
  \/ GenPollThrew
  \/ \E o \in UploadOutcomes : GenUpload(o)
  \/ \E lo \in WriteOutcomes : GenLogSuccess(lo)
  \/ \E o \in Base64Outcomes : GenBase64(o)
  \/ \E lo \in WriteOutcomes : GenCatch(lo)

SpecOrch == InitOrch /\ [][NextOrch]_vars

\* One POST /v1/images/generations that has passed the two middlewares, with
\* a body that varies one field at a time, against the same upstream.
NValues == {NoN} \cup {NumN(k) : k \in {-1, 0, 1, MaxImages, MaxImages + 1}}
                 \cup {StrN(t) : t \in {"abc", "0", "7", "11"}}
RouteBodies ==
  [prompt : {Absent, "", "a cat"}, n : {NoN}, size : {Absent},
   response_format : {Absent}, model : {Absent}]
  \cup [prompt : {"a cat"}, n : NValues, size : {Absent},
        response_format : {Absent}, model : {Absent}]
  \cup [prompt : {"a cat"}, n : {NoN}, size : {"hd", "999x999"},
        response_format : {Absent}, model : {Absent}]
  \cup [prompt : {"a cat"}, n : {NoN}, size : {Absent},
        response_format : {"url", "b64_json", "png"}, model : {Absent}]
  \cup [prompt : {"a cat"}, n : {NoN}, size : {Absent}, response_format : {Absent},
        model : {"flux-pro", "dall-e-3", "no-such-model", "constructor"}]

InitRoute ==
  /\ RLIdle
  /\ PollIdle
  /\ GenIdle
  /\ AuthIdle
  /\ KaIdle
  /\ rtpc = "start"
  /\ body \in RouteBodies
  /\ response = NoResponse

\* generateImage's own test of the prompt cannot fail here: the route has
\* refused every falsy prompt before the call.
NextRoute ==
  \/ RouteReject
  \/ RouteCall
  \/ RouteRespond
  \/ GenRejectModel
  \/ GenSubmitOk("https://up/task/1")
  \/ GenSubmitNotOk
  \/ \E s \in HttpStatuses : GenSubmitThrow(s)
  \/ \E u \in Urls : attempt < EarlyPolls /\ PollDone(u)
  \/ \E k \in AnswerKinds : attempt < EarlyPolls /\ PollPending(k)
  \/ attempt < EarlyPolls /\ PollError
  \/ PollTransport
  \/ PollTimeout
  \/ GenPollReturned
  \/ GenPollThrew
  \/ \E o \in UploadOutcomes : GenUpload(o)
  \/ \E lo \in WriteOutcomes : GenLogSuccess(lo)
  \/ \E o \in Base64Outcomes : GenBase64(o)
  \/ \E lo \in WriteOutcomes : GenCatch(lo)

SpecRoute == InitRoute /\ [][NextRoute]_vars

\* One call of generateImage for every model name and size, against an
\* upstream that refuses or fails the submit request: the call resolves its
\* target, or rejects the model, and ends in its catch block.
OtherModels == {"", "no-such-model", "DALLE", "sdxl"} \cup ObjectPrototype
ResolveParams ==
  [prompt : {"a cat"}, n : {1},
   size : SUPPORTED_SIZES \cup {Absent},
   model : SUPPORTED_MODELS \cup DOMAIN OPENAI_MODEL_MAP \cup {Absent} \cup OtherModels,
   response_format : {Absent}, keyId : {"key-1"}]

InitResolve ==
  /\ RLIdle
  /\ PollIdle
  /\ RouteIdle
  /\ AuthIdle
  /\ KaIdle
  /\ gpc = "start"
  /\ params \in ResolveParams
  /\ ack = "none"
  /\ submits = 0
  /\ downloads = 0
  /\ puts = 0
  /\ tempFiles = 0
  /\ imageUrl = NoUrl
  /\ logs = <<>>
  /\ gerr = NoError
  /\ gresult = NoResult
  /\ resolved = NoTarget
  /\ upOutcome = "none"
  /\ b64Outcome = "none"

NextResolve ==
  \/ GenRejectModel
  \/ GenSubmitNotOk
  \/ \E s \in HttpStatuses : GenSubmitThrow(s)
  \/ \E lo \in WriteOutcomes : GenCatch(lo)

SpecResolve == InitResolve /\ [][NextResolve]_vars

\* One request goes through the application: route matching, the key check,
\* the rate limiter, the route handler and generateImage, with key and ledger
\* stores that may fail.
AppBodies ==
  [prompt : {Absent, "a cat"}, n : {NoN}, size : {Absent},
   response_format : {Absent}, model : {Absent}]
  \cup [prompt : {"a cat"}, n : {NoN}, size : {Absent},
        response_format : {"b64_json"}, model : {Absent, "constructor"}]

InitApp ==
  /\ PollIdle
  /\ GenIdle
  /\ KaIdle
  /\ clock = DayLen
  /\ rateLimit = 1
  /\ rec \in {NoRec, Row(0, DayLen, 1), Row(1, DayLen, 1)}
  /\ rpc = [r \in Reqs |-> "idle"]
  /\ rnow = [r \in Reqs |-> 0]
  /\ rreset = [r \in Reqs |-> 0]
  /\ rdata = [r \in Reqs |-> NoData]
  /\ routcome = [r \in Reqs |-> "none"]
  /\ rwrites = [r \in Reqs |-> 0]
  /\ rheaders = [r \in Reqs |-> NoHdr]
  /\ rbranch = [r \in Reqs |-> "none"]
  /\ rtpc = "idle"
  /\ body \in AppBodies
  /\ response = NoResponse
  /\ apc = "idle"
  /\ path \in {Generations, UnknownRoute}
  /\ header = "none"
  /\ keyRow \in {KeyRow(TRUE, FALSE, Num(0)), KeyRow(TRUE, TRUE, Num(0)),
                  KeyRow(FALSE, FALSE, Num(0))}
  /\ adata = NoKeyData
  /\ areq = 0
  /\ authed = 0
  /\ usage0 = 0

NextApp ==
  \/ AppNotFound
  \/ \E h \in AuthHeaders : AppRoute(h)
  \/ AuthRejectHeader
  \/ AuthRejectFormat
  \/ AuthSelectOk
  \/ AuthSelectError
  \/ AuthSelectThrow
  \/ AuthRejectUnknown
  \/ AuthRejectRevoked
  \/ \E w \in WriteOutcomes : AuthUpdate(w)
  \/ AppLimiter
  \/ RLReadOk(1)
  \/ RLReadError(1)
  \/ RLReadThrow(1)
  \/ \E w \in WriteOutcomes : RLReset(1, w)
  \/ RLDeny(1)
  \/ \E w \in WriteOutcomes : RLIncrement(1, w)
  \/ AppLimiterLeft
  \/ RouteReject
  \/ RouteCall
  \/ RouteRespond
  \/ GenRejectModel
  \/ GenSubmitOk("https://up/task/1")
  \/ GenSubmitNotOk
  \/ \E s \in HttpStatuses : GenSubmitThrow(s)
  \/ \E u \in Urls : attempt < EarlyPolls /\ PollDone(u)
  \/ \E k \in AnswerKinds : attempt < EarlyPolls /\ PollPending(k)
  \/ attempt < EarlyPolls /\ PollError
  \/ PollTransport
  \/ PollTimeout
  \/ GenPollReturned
  \/ GenPollThrew
  \/ \E o \in UploadOutcomes : GenUpload(o)
  \/ \E lo \in WriteOutcomes : GenLogSuccess(lo)
  \/ \E o \in Base64Outcomes : GenBase64(o)
  \/ \E lo \in WriteOutcomes : GenCatch(lo)

SpecApp == InitApp /\ [][NextApp]_vars

\* Requests for one credential pass authenticateApiKey one after another.
KeyRows == {KeyRow(e, r, Num(u)) : e \in BOOLEAN, r \in BOOLEAN, u \in 0..1}

InitAuth ==
  /\ RLIdle
  /\ PollIdle
  /\ GenIdle
  /\ RouteIdle
  /\ KaIdle
  /\ apc = "idle"
  /\ path = "GET /v1/admin/keepalive/status"
  /\ header = "none"
  /\ keyRow \in KeyRows
  /\ adata = NoKeyData
  /\ areq = 0
  /\ authed = 0
  /\ usage0 = keyRow.usage_count.v

\* The key store answers every call.
NextAuthOk ==
  \/ \E h \in AuthHeaders : AuthArrive(h)
  \/ AuthRejectHeader
  \/ AuthRejectFormat
  \/ AuthSelectOk
  \/ AuthRejectUnknown
  \/ AuthRejectRevoked
  \/ AuthUpdate("ok")

SpecAuthOk == InitAuth /\ [][NextAuthOk]_vars

(***************************************************************************)
(* KeepAliveService and the admin routes that drive it                     *)
(***************************************************************************)
\* Pings started in one run of the model.
MaxPings == 3
\* Interval timers made in one run of the model.
MaxTimers == 2

maxLogs == 100

\* The health endpoint of the service itself, used when no url is given.
LocalHealth == "http://localhost/health"
\* The url the listen callback builds from PUBLIC_URL.
PublicHealth == "https://public.example/health"
\* The url argument: undefined, or a url of the caller.
KaUrls == {Absent, "https://other.example/health"}
\* The intervalMinutes argument: undefined, or a number.
KaMinutes == {Undefined, Num(1), Num(5)}

\* The default parameter value: intervalMinutes = 5.
IntervalMinutes(m) == IF m = Undefined THEN 5 ELSE m.v

\* this.ping() up to its await: one more axios.get is in flight.
ping ==
  /\ pings' = pings + 1
  /\ inFlight' = inFlight \cup {pings + 1}

\* Mutant: the truncation keeps the last maxLogs entries.
addLogDropsNewest(entry) ==
  LET unshifted == <<entry>> \o kaLogs
  IN IF Len(unshifted) > maxLogs THEN SubSeq(unshifted, 2, maxLogs + 1) ELSE unshifted

\* this.logs after addLog(entry): newest first, at most maxLogs entries.
addLog(entry) ==
  LET unshifted == <<entry>> \o kaLogs
  IN IF Len(unshifted) > maxLogs THEN SubSeq(unshifted, 1, maxLogs) ELSE unshifted

\* What getStatus returns: logs.slice(0, 5) are the first five entries, or
\* all of them when there are fewer.
getStatus ==
  [isRunning |-> isRunning,
   pingUrl |-> pingUrl,
   pingInterval |-> pingInterval \div 60000,
   lastPings |-> SubSeq(kaLogs, 1, IF Len(kaLogs) < 5 THEN Len(kaLogs) ELSE 5)]

\* Mutant: start without the check of isRunning.
startUnguarded(url, intervalMinutes) ==
  /\ pings < MaxPings
  /\ interval < MaxTimers
  /\ pingUrl' = IF url = Absent THEN LocalHealth ELSE url
  /\ pingInterval' = IntervalMinutes(intervalMinutes) * 60 * 1000
  /\ ping
  /\ interval' = interval + 1
  /\ timers' = timers \cup {interval + 1}
  /\ isRunning' = TRUE
  /\ UNCHANGED kaLogs

\* start(url, intervalMinutes): nothing when running; otherwise the url and
\* the interval are stored, one ping is started and one timer is made.
start(url, intervalMinutes) ==
  IF isRunning
  THEN UNCHANGED <<isRunning, interval, timers, pingUrl, pingInterval, kaLogs, inFlight, pings>>
  ELSE /\ pings < MaxPings
       /\ interval < MaxTimers
       /\ pingUrl' = IF url = Absent THEN LocalHealth ELSE url
       /\ pingInterval' = IntervalMinutes(intervalMinutes) * 60 * 1000
       /\ ping
       /\ interval' = interval + 1
       /\ timers' = timers \cup {interval + 1}
       /\ isRunning' = TRUE
       /\ UNCHANGED kaLogs

\* stop(): nothing when not running; otherwise the timer of this.interval is
\* cleared. this.interval keeps the cleared handle.
stop ==
  IF ~isRunning
  THEN UNCHANGED <<isRunning, interval, timers, pingUrl, pingInterval, kaLogs, inFlight, pings>>
  ELSE /\ timers' = timers \ {interval}
       /\ isRunning' = FALSE
       /\ UNCHANGED <<interval, pingUrl, pingInterval, kaLogs, inFlight, pings>>

Op(name) == [op |-> name, wasRunning |-> isRunning]

\* The listen callback outside development mode: start(pingUrl, 5), once.
KaBoot ==
  /\ kaOp.op = "none"
  /\ start(PublicHealth, Num(5))
  /\ kaOp' = Op("boot")
  /\ UNCHANGED <<rlVars, pollVars, genVars, routeVars, authVars>>

\* A call of the method start by any holder of the singleton.
KaStart(url, intervalMinutes) ==
  /\ start(url, intervalMinutes)
  /\ kaOp' = Op("start")
  /\ UNCHANGED <<rlVars, pollVars, genVars, routeVars, authVars>>

\* A call of the method stop by any holder of the singleton.
KaStop ==
  /\ stop
  /\ kaOp' = Op("stop")
  /\ UNCHANGED <<rlVars, pollVars, genVars, routeVars, authVars>>

\* POST /keepalive/start after authentication: start is called only when the
\* service is not running.
KaRouteStart(url, intervalMinutes) ==
  /\ IF ~isRunning
     THEN start(url, intervalMinutes)
     ELSE UNCHANGED <<isRunning, interval, timers, pingUrl, pingInterval, kaLogs, inFlight, pings>>
  /\ kaOp' = Op("route_start")
  /\ UNCHANGED <<rlVars, pollVars, genVars, routeVars, authVars>>

\* POST /keepalive/stop after authentication: stop is called only when the
\* service is running.
KaRouteStop ==
  /\ IF isRunning
     THEN stop
     ELSE UNCHANGED <<isRunning, interval, timers, pingUrl, pingInterval, kaLogs, inFlight, pings>>
  /\ kaOp' = Op("route_stop")
  /\ UNCHANGED <<rlVars, pollVars, genVars, routeVars, authVars>>

\* An active interval timer fires: its callback starts a ping.
KaTick(t) ==
  /\ t \in timers
  /\ pings < MaxPings
  /\ ping
  /\ kaOp' = Op("tick")
  /\ UNCHANGED <<isRunning, interval, timers, pingUrl, pingInterval, kaLogs>>
  /\ UNCHANGED <<rlVars, pollVars, genVars, routeVars, authVars>>

\* The axios.get of ping p completes: the try block or the catch block adds
\* one entry, with the pingUrl of that moment.
KaPingDone(p, success) ==
  /\ p \in inFlight
  /\ inFlight' = inFlight \ {p}
  /\ kaLogs' = addLog([ping |-> p, url |-> pingUrl, success |-> success])
  /\ kaOp' = Op("ping_done")
  /\ UNCHANGED <<isRunning, interval, timers, pingUrl, pingInterval, pings>>
  /\ UNCHANGED <<rlVars, pollVars, genVars, routeVars, authVars>>

InitKeepAlive ==
  /\ RLIdle
  /\ PollIdle
  /\ GenIdle
  /\ RouteIdle
  /\ AuthIdle
  /\ KaIdle

NextKeepAlive ==
  \/ KaBoot
  \/ \E url \in KaUrls, m \in KaMinutes : KaStart(url, m)
  \/ KaStop
  \/ \E url \in KaUrls, m \in KaMinutes : KaRouteStart(url, m)
  \/ KaRouteStop
  \/ \E t \in 1..MaxTimers : KaTick(t)
  \/ \E p \in 1..MaxPings, success \in BOOLEAN : KaPingDone(p, success)

SpecKeepAlive == InitKeepAlive /\ [][NextKeepAlive]_vars

(***************************************************************************)
(* GET /v1/images/models and the static catalog                            *)
(***************************************************************************)
ModelsPath == "GET /v1/images/models"

\* Mutant: one entry for each provider, under the provider's name.
ModelsListByProvider ==
  {[id |-> providerName, provider |-> providerName] : providerName \in DOMAIN PROVIDERS}
  \cup {[id |-> openaiModel, provider |-> "openai-compatible"] :
          openaiModel \in DOMAIN OPENAI_MODEL_MAP}

\* The entries the route pushes: one for each model of each provider, then
\* one for each key of OPENAI_MODEL_MAP (object, created and owned_by are the
\* same in all of them).
ModelsList ==
  UNION {{[id |-> modelName, provider |-> providerName] :
            modelName \in PROVIDERS[providerName].models} :
         providerName \in DOMAIN PROVIDERS}
  \cup {[id |-> openaiModel, provider |-> "openai-compatible"] :
          openaiModel \in DOMAIN OPENAI_MODEL_MAP}

\* GET /models after authentication: 200 with the list.
ModelsRoute ==
  /\ rtpc = "start"
  /\ path = ModelsPath
  /\ response' = [status |-> 200, data |-> ModelsList, error |-> NoError]
  /\ rtpc' = "done"
  /\ UNCHANGED <<body, rlVars, pollVars, genVars, authVars, kaVars>>

\* One authenticated request: GET /models, or POST /generations naming any
\* listed model, or another one, with any supported size or none; the
\* upstream refuses every submit.
CatalogBodies ==
  [prompt : {"a cat"}, n : {NoN}, size : SUPPORTED_SIZES \cup {Absent},
   response_format : {Absent},
   model : {e.id : e \in ModelsList} \cup {"no-such-model", "sdxl", "constructor"}]

InitCatalog ==
  /\ RLIdle
  /\ PollIdle
  /\ GenIdle
  /\ KaIdle
  /\ apc = "next"
  /\ path \in {ModelsPath, Generations}
  /\ header = "key"
  /\ keyRow = KeyRow(TRUE, FALSE, Num(0))
  /\ adata = NoKeyData
  /\ areq = 1
  /\ authed = 1
  /\ usage0 = 0
  /\ rtpc = "start"
  /\ body \in CatalogBodies
  /\ response = NoResponse

NextCatalog ==
  \/ ModelsRoute
  \/ path = Generations /\ RouteReject
  \/ path = Generations /\ RouteCall
  \/ GenRejectModel
  \/ GenSubmitNotOk
  \/ GenCatch("ok")
  \/ RouteRespond

SpecCatalog == InitCatalog /\ [][NextCatalog]_vars

\* The service long after boot: the log holds the entries of earlier pings,
\* numbered 0, -1, ... from the newest, and is at most LogRoom short of full.
LogRoom == 2

OldLogs(len) == [i \in 1..len |-> [ping |-> 1 - i, url |-> PublicHealth, success |-> TRUE]]

InitKeepLogs ==
  /\ RLIdle
  /\ PollIdle
  /\ GenIdle
  /\ RouteIdle
  /\ AuthIdle
  /\ isRunning = TRUE
  /\ interval = 1
  /\ timers = {1}
  /\ pingUrl = PublicHealth
  /\ pingInterval = 5 * 60 * 1000
  /\ \E len \in (maxLogs - LogRoom)..maxLogs : kaLogs = OldLogs(len)
  /\ inFlight = {}
  /\ pings = 0
  /\ kaOp = [op |-> "ping_done", wasRunning |-> TRUE]

NextKeepLogs ==
  \/ \E url \in KaUrls, m \in KaMinutes : KaRouteStart(url, m)
  \/ KaRouteStop
  \/ \E t \in 1..MaxTimers : KaTick(t)
  \/ \E p \in 1..MaxPings, success \in BOOLEAN : KaPingDone(p, success)

SpecKeepLogs == InitKeepLogs /\ [][NextKeepLogs]_vars

(***************************************************************************)
(* Properties of the rate limiter                                          *)
(***************************************************************************)
\* The ceiling of the credential.
Ceiling == MaxRequestsFor(rateLimit)
Midnights == {Midnight(t) : t \in 0..LastClock}
\* The requests of the day that starts at midnight m, by outcome.
HandledOn(m) == {r \in Reqs : rpc[r] = "done" /\ rreset[r] = m}
AdmittedOn(m) == {r \in HandledOn(m) : routcome[r] = "next"}
DeniedOn(m) == {r \in HandledOn(m) : routcome[r] = "429"}
Min(a, b) == IF a < b THEN a ELSE b
\* No request has created or reset the row, or left through the catch block:
\* the row was present and fresh for all of them.
RowPresentThroughout ==
  \A r \in Reqs : rbranch[r] \in {"none", "increment", "deny"}

\* C1: with the row present (count 0, ceiling N) and requests of one day in
\* any interleaving, at most N requests are admitted.
C1_AtMostCeilingAdmitted ==
  RowPresentThroughout =>
    \A m \in Midnights : Cardinality(AdmittedOn(m)) <= Ceiling

\* C2: requests handled one after another within a day, by a store that
\* answers every call: of k requests handled that day, min(k, ceiling) are
\* admitted, the others are denied with 429, and no request is denied before
\* the ceiling is reached.
C2_SequentialExactlyCeiling ==
  \A m \in Midnights :
    /\ Cardinality(AdmittedOn(m)) = Min(Cardinality(HandledOn(m)), Ceiling)
    /\ HandledOn(m) = AdmittedOn(m) \cup DeniedOn(m)
    /\ (DeniedOn(m) # {} => Cardinality(AdmittedOn(m)) = Ceiling)

C2_Witness ==
  /\ Ceiling = 2
  /\ \E m \in Midnights :
       /\ Cardinality(AdmittedOn(m)) = 2
       /\ Cardinality(DeniedOn(m)) >= 1
       /\ \E r \in AdmittedOn(m) : rbranch[r] = "reset"

\* The row holds a count of the day of request r that has reached its maximum.
FullFor(r) ==
  /\ rec # NoRec
  /\ rec.last_reset >= rreset[r]
  /\ rec.requests_count >= rec.max_requests

\* C3: a request is admitted only if the stored count of the current day was
\* strictly below max_requests before it was consumed, and the stored count
\* never exceeds max_requests; store errors and exceptions included.
C3_AdmittedOnlyBelowCeiling ==
  /\ [][\A r \in Reqs :
          (routcome[r] = "none" /\ routcome'[r] = "next") => ~FullFor(r)]_vars
  /\ [](rec # NoRec => rec.requests_count <= rec.max_requests)

\* The row is missing, or older than the midnight request r computed.
StaleFor(r) == IF rec = NoRec THEN TRUE ELSE rec.last_reset < rreset[r]

\* C4: a request that finds no row, or a row of before today's midnight, is
\* admitted and leaves the row at count 1 with last_reset = now, in one step;
\* a row of today is never reset by a request.
C4_ResetExactlyWhenStale ==
  [][\A r \in Reqs :
       (rpc[r] = "decide" /\ rpc'[r] = "done") =>
         IF StaleFor(r)
         THEN /\ routcome'[r] = "next"
              /\ rec' = Row(1, rnow[r], Ceiling)
         ELSE ~(rbranch'[r] = "reset" /\ rec' # rec)]_vars

\* C5: a request denied because requests_count >= max_requests writes
\* nothing: the row is the same before and after, the request has issued no
\* write, and next() is not called.
C5_DenialWritesNothing ==
  [][\A r \in Reqs :
       ( /\ rpc[r] = "decide"
         /\ rpc'[r] = "done"
         /\ ~NeedsReset(rdata[r], rreset[r])
         /\ rdata[r].data.requests_count >= rdata[r].data.max_requests )
       => /\ rec' = rec
          /\ rwrites'[r] = 0
          /\ routcome'[r] = "429"]_vars

C5_Witness ==
  \E r \in Reqs :
    /\ rbranch[r] = "deny"
    /\ routcome[r] = "429"
    /\ rwrites[r] = 0
    /\ rec # NoRec
    /\ rec.requests_count >= rec.max_requests

(***************************************************************************)
(* Properties of pollTaskCompletion                                        *)
(***************************************************************************)
PollEnded == ppc \in {"returned", "threw"}

\* C6: once an attempt has received status 'error', the call has ended with
\* the generation-failed error; no further polling call follows and the call
\* cannot end as a timeout.
C6_ErrorStatusIsTerminal ==
  "error" \in seen => (ppc = "threw" /\ pollResult.error = GenerationFailed)

\* C7: if attempt k is the first to receive 'done' with a url and attempts
\* 1..k-1 received pending, the call has returned that url after exactly k
\* polling calls, 1 <= k <= maxAttempts.
C7_DoneOnAttemptK ==
  (doneAt # 0 /\ seen \subseteq {"pending", "done_url"}) =>
    /\ ppc = "returned"
    /\ pollResult.kind = "ok"
    /\ pollResult.url = doneUrl
    /\ pollCalls = doneAt
    /\ doneAt \in 1..maxAttempts

C7_Witness ==
  /\ ppc = "returned"
  /\ seen = {"pending", "done_url"}
  /\ doneAt = maxAttempts
  /\ pollCalls = maxAttempts
  /\ pollResult.url = "https://up/b.jpg"

\* C8: a call in which no attempt received 'done' with a url or 'error' ends
\* only by the timeout error (408, generation_timeout), after exactly
\* maxAttempts polling calls; the loop never issues more.
C8_TimeoutAfterMaxAttempts ==
  /\ pollCalls <= maxAttempts
  /\ (ppc = "loop" /\ seen \cap {"done_url", "error"} = {}) => pollCalls = attempt
  /\ (PollEnded /\ seen \cap {"done_url", "error"} = {}) =>
       /\ ppc = "threw"
       /\ pollResult.error = GenerationTimeout
       /\ pollResult.error.statusCode = 408
       /\ pollResult.error.code = "generation_timeout"
       /\ pollCalls = maxAttempts

C8_Witness ==
  /\ ppc = "threw"
  /\ seen = {"pending", "done_nourl"}
  /\ pollCalls = maxAttempts
  /\ pollResult.error.code = "generation_timeout"

\* C9: after a transport error the loop goes on: the failed attempt has used
\* one of the maxAttempts, the call ends in an error only by the timeout
\* after maxAttempts calls, and a later 'done' with a url is returned.
C9_TransportErrorIsTransient ==
  "transport" \in seen =>
    /\ ppc = "loop" => (pollCalls = attempt /\ attempt <= maxAttempts)
    /\ ppc = "threw" => (pollResult.error = GenerationTimeout /\ pollCalls = maxAttempts)
    /\ doneAt # 0 => (ppc = "returned" /\ pollResult.kind = "ok" /\ pollResult.url = doneUrl)

C9_Witness ==
  /\ "transport" \in seen
  /\ ppc = "returned"
  /\ pollResult.kind = "ok"
  /\ pollResult.url = doneUrl
  /\ doneAt > 1

(***************************************************************************)
(* Properties of generateImage                                             *)
(***************************************************************************)
\* C10: after an acknowledgement that is not ok, the call goes to its catch
\* block and throws the generation_failed error (400); no polling call, no
\* download and no storage upload is made.
C10_RejectedSubmitFailsFast ==
  ack = "not_ok" =>
    /\ gpc \in {"catch", "done"}
    /\ ppc = "idle"
    /\ pollCalls = 0
    /\ downloads = 0
    /\ puts = 0
    /\ gpc = "done" =>
         /\ gresult.kind = "error"
         /\ gresult.error = GenerationFailed
         /\ gresult.error.code = "generation_failed"

C10_Witness ==
  /\ ack = "not_ok"
  /\ gpc = "done"
  /\ gresult.kind = "error"
  /\ gresult.error.code = "generation_failed"
  /\ submits = 1
  /\ pollCalls = 0

\* C11: for every n in 1..10, a call that returns a response made exactly one
\* submit request and went through one poll loop (the one that returned the
\* image), and its data array has exactly n entries, all equal.
C11_OneSubmitNEqualEntries ==
  (gpc = "done" /\ gresult.kind = "ok") =>
    /\ params.n \in 1..MaxImages
    /\ submits = 1
    /\ ppc = "returned"
    /\ pollCalls = doneAt
    /\ Len(gresult.data) = params.n
    /\ \A i \in 1..Len(gresult.data) : gresult.data[i] = gresult.data[1]
    /\ gresult.data[1] \in {[url |-> imageUrl],
                            [b64_json |-> [kind |-> "base64", of |-> doneUrl]]}

C11_Witness ==
  /\ gpc = "done"
  /\ gresult.kind = "ok"
  /\ params.n = MaxImages
  /\ Len(gresult.data) = MaxImages
  /\ FormatOf(params) = "b64_json"
  /\ submits = 1
  /\ doneAt = 2

\* C12: once uploadToStorage or imageToBase64 has returned or thrown, the
\* temporary file it created no longer exists: on success, on a storage upload
\* failure, on a signed-URL failure, on an audit-insert failure and on a
\* read/encode failure no temporary file is left.
C12_NoTempFileLeft ==
  (/\ upOutcome \in {"none", "ok", "put_fail", "sign_fail", "audit_error", "audit_throw"}
   /\ b64Outcome \in {"none", "ok", "read_fail"})
    => tempFiles = 0

\* C13: when the storage upload or the signed-URL creation fails,
\* uploadToStorage returns exactly the upstream source URL and throws nothing;
\* a url-format call then returns a response whose every data entry carries
\* that source URL.
C13_UploadFailureFallsBack ==
  upOutcome \in {"put_fail", "sign_fail"} =>
    /\ imageUrl = SourceUrl(doneUrl)
    /\ gpc = "log" => gerr = NoError
    /\ FormatOf(params) = "url" =>
         /\ gpc \in {"log", "done"}
         /\ gerr = NoError
         /\ gpc = "done" =>
              /\ gresult.kind = "ok"
              /\ Len(gresult.data) = params.n
              /\ \A i \in 1..params.n :
                   gresult.data[i] = [url |-> SourceUrl(doneUrl)]

C13_Witness ==
  /\ upOutcome = "sign_fail"
  /\ FormatOf(params) = "url"
  /\ gpc = "done"
  /\ gresult.kind = "ok"
  /\ params.n = 3
  /\ gresult.data[3] = [url |-> SourceUrl(doneUrl)]
  /\ puts = 1

\* C14: once the artifact is uploaded and its signed URL created, a failure of
\* the insert into images, answered as an error or thrown, leaves the value
\* uploadToStorage returns unchanged: the signed URL.
C14_AuditFailureKeepsSignedUrl ==
  upOutcome \in {"audit_error", "audit_throw"} => imageUrl = SignedUrl(doneUrl)

\* C15: for response_format b64_json, a failure to download or encode the
\* artifact makes the call throw the artifact-processing error (500,
\* image_processing_failed); no data entry is returned and the source URL is
\* not used as a fallback.
C15_Base64FailureAborts ==
  b64Outcome \in {"download_fail", "write_fail", "read_fail"} =>
    /\ FormatOf(params) = "b64_json"
    /\ gpc \in {"catch", "done"}
    /\ gerr = ProcessingFailed
    /\ gpc = "done" =>
         /\ gresult.kind = "error"
         /\ gresult.data = <<>>
         /\ gresult.error.statusCode = 500
         /\ gresult.error.code = "image_processing_failed"

C15_Witness ==
  /\ b64Outcome = "read_fail"
  /\ upOutcome = "ok"
  /\ gpc = "done"
  /\ gresult.kind = "error"
  /\ gresult.error.code = "image_processing_failed"
  /\ downloads = 2

\* C16: a call made with a credential id attempts exactly one insert into
\* request_logs, and the status of that record agrees with what the caller
\* sees: 'success' exactly when a response is returned, 'error' exactly when
\* the call throws.
C16_OneLogAgreesWithOutcome ==
  (gpc = "done" /\ params.keyId # Absent) =>
    /\ Len(logs) = 1
    /\ logs[1].status = "success" <=> gresult.kind = "ok"
    /\ logs[1].status = "error" <=> gresult.kind = "error"

\* What the call returns or throws as a function of its arguments and of the
\* behaviour of the upstream and the storage alone.
Thrown(e) == [kind |-> "error", data |-> <<>>, error |-> e]
PrimaryResult ==
  IF params.prompt = ""
  THEN Thrown(ApiError(400, "invalid_request_error", "prompt", "param_required"))
  ELSE IF ProviderName(ActualModel(ModelOf(params))) = Absent
  THEN Thrown(ApiError(400, "invalid_request_error", "model", "param_invalid"))
  ELSE IF ack = "not_ok" THEN Thrown(GenerationFailed)
  ELSE IF ack = "throw" THEN Thrown(Rethrown(gerr))
  ELSE IF pollResult.kind = "error" THEN Thrown(pollResult.error)
  ELSE IF FormatOf(params) = "b64_json"
  THEN IF b64Outcome = "ok"
       THEN [kind |-> "ok",
             data |-> [i \in 1..params.n |->
                         [b64_json |-> [kind |-> "base64", of |-> doneUrl]]],
             error |-> NoError]
       ELSE Thrown(ProcessingFailed)
  ELSE [kind |-> "ok",
        data |-> [i \in 1..params.n |->
                    [url |-> IF upOutcome \in {"ok", "audit_error"}
                             THEN SignedUrl(doneUrl) ELSE SourceUrl(doneUrl)]],
        error |-> NoError]

\* C17: a failure of the insert into request_logs never changes the result:
\* with the same upstream and storage behaviour the call returns the same
\* response, or throws the same error, whatever the log store does.
C17_LogFailureChangesNothing ==
  gpc = "done" => gresult = PrimaryResult

C17_Witness ==
  /\ gpc = "done"
  /\ Len(logs) = 2
  /\ logs[1].outcome = "throw"
  /\ logs[2].outcome = "error"
  /\ gresult.kind = "error"
  /\ gresult.error = ProcessingFailed

(***************************************************************************)
(* Properties of the route                                                 *)
(***************************************************************************)
\* The fields of the request that are not acceptable: an empty prompt, an n
\* outside 1..10, a size, response_format or model that is not supported.
BadFields ==
  {f \in {"prompt", "n", "size", "response_format", "model"} :
     CASE f = "prompt" -> body.prompt \in {Absent, ""}
       [] f = "n" -> /\ body.n.kind # "absent"
                     /\ \/ ParseInt(body.n).nan
                        \/ ParseInt(body.n).v \notin 1..MaxImages
       [] f = "size" -> body.size \notin SUPPORTED_SIZES \cup {Absent}
       [] f = "response_format" ->
            body.response_format \notin SUPPORTED_FORMATS \cup {Absent}
       [] OTHER -> body.model \notin
                     SUPPORTED_MODELS \cup DOMAIN OPENAI_MODEL_MAP \cup {Absent}}

\* C18: a request with an empty prompt, an n outside 1..10, an unsupported
\* size or response_format, or an unknown model is answered 400
\* invalid_request_error naming an offending field, and no submit, poll,
\* download, storage write or log write is ever made for it.
C18_InvalidRequestRejectedFirst ==
  (rtpc # "start" /\ BadFields # {}) =>
    /\ rtpc = "done"
    /\ response.status = 400
    /\ response.error.type = "invalid_request_error"
    /\ response.error.param \in BadFields
    /\ submits = 0
    /\ pollCalls = 0
    /\ downloads = 0
    /\ puts = 0
    /\ logs = <<>>

(***************************************************************************)
(* Properties of the resolution of model and size                          *)
(***************************************************************************)
\* C19: for every supported model, every alias and an absent model, with
\* every supported size or none, the call resolves a provider that is a key
\* of PROVIDERS, with that provider's endpoint, and submits; for every other
\* model string it throws the invalid-model error (400, param 'model')
\* without resolving anything.
C19_ResolutionTotalOnCatalog ==
  gpc # "start" =>
    IF params.model \in SUPPORTED_MODELS \cup DOMAIN OPENAI_MODEL_MAP \cup {Absent}
    THEN /\ submits = 1
         /\ resolved.providerName \in DOMAIN PROVIDERS
         /\ resolved.endpoint = PROVIDERS[resolved.providerName].endpoint
         /\ resolved.endpoint # Absent
         /\ gerr.param # "model"
    ELSE /\ submits = 0
         /\ resolved = NoTarget
         /\ gerr = ApiError(400, "invalid_request_error", "model", "param_invalid")
         /\ gpc = "done" =>
              /\ gresult.kind = "error"
              /\ gresult.error.statusCode = 400
              /\ gresult.error.param = "model"

C19_Witness ==
  /\ gpc = "done"
  /\ params.model = "sdxl-beta"
  /\ params.size = "2048x2048"
  /\ submits = 1
  /\ resolved.providerName = "sdxl"
  /\ resolved.endpoint = "/ai-image/sdxl-beta"

\* C20: an alias a resolves to the same provider, endpoint and variant as
\* its canonical model OPENAI_MODEL_MAP[a] with the same size, and a
\* canonical model resolves as itself: the alias table has no entry for it.
C20_AliasResolvesAsCanonical ==
  gpc # "start" =>
    /\ params.model \in DOMAIN OPENAI_MODEL_MAP =>
         /\ submits = 1
         /\ resolved.actualModel = OPENAI_MODEL_MAP[params.model]
         /\ resolved = Resolve([params EXCEPT !.model = OPENAI_MODEL_MAP[params.model]])
    /\ params.model \in SUPPORTED_MODELS =>
         /\ AliasLookup(params.model) = Absent
         /\ resolved.actualModel = params.model
         /\ resolved.providerName = MODEL_PROVIDERS[params.model]

C20_Witness ==
  /\ gpc = "done"
  /\ params.model = "stable-diffusion-2"
  /\ params.size = "hd"
  /\ submits = 1
  /\ resolved.providerName = "flux"
  /\ resolved.variant = "flux-1.1-pro-ultra"

Answered == response # NoResponse

\* C22: a failed request is answered with the body {error: {message, type,
\* param, code}} and the status of its error kind: invalid input or model
\* 400, a missing, malformed, unknown or revoked credential 401, an unknown
\* route 404, a poll timeout 408, quota exceeded 429, a failed inline
\* processing 500.
C22_ErrorBodyAndStatus ==
  (Answered /\ response.status # 200) =>
    /\ DOMAIN response.error = {"message", "type", "param", "code"}
    /\ path # Generations => response.status = 404
    /\ (apc = "done" /\ (header # "key" \/ adata.error \/ adata.revoked)) =>
         response.status = 401
    /\ routcome[1] = "429" => response.status = 429
    /\ (rtpc = "done" /\ routcome[1] = "next" /\ Validate(body) # NoError) =>
         response.status = 400
    /\ (rtpc = "done" /\ gerr.param = "model") => response.status = 400
    /\ (rtpc = "done" /\ gerr = GenerationTimeout) => response.status = 408
    /\ (rtpc = "done" /\ gerr = ProcessingFailed) => response.status = 500

\* The credential of the request was refused: no usable header, or the key
\* store answered that the key is unknown or revoked.
Refused ==
  \/ header \in {"missing", "not_bearer", "bad_key_format"}
  \/ adata.error
  \/ adata.found /\ adata.revoked

\* C25: a request whose Authorization header is missing or malformed, or
\* whose key is unknown or revoked, is answered 401 and goes no further: the
\* rate limiter and generateImage are never entered for it, rate_limits is
\* not written, no upstream call is made and usage_count is not updated.
C25_RefusedCredentialStopsAtAuth ==
  Refused =>
    /\ apc \in {"start", "decide", "done"}
    /\ apc = "done" => response.status = 401
    /\ authed = 0
    /\ keyRow.usage_count = Num(usage0)
    /\ rpc[1] = "idle"
    /\ rwrites[1] = 0
    /\ rtpc = "idle"
    /\ gpc = "idle"
    /\ submits = 0
    /\ pollCalls = 0

C25_Witness ==
  /\ apc = "done"
  /\ header = "key"
  /\ keyRow.revoked
  /\ adata.revoked
  /\ response.status = 401
  /\ response.error.code = "revoked_api_key"

\* C26: each request that is authenticated raises the usage_count of the
\* credential's row by exactly one: after k authenticated requests, handled
\* one after another, usage_count has grown by k.
C26_UsageCountsAuthenticatedRequests ==
  apc \in {"next", "done"} => keyRow.usage_count = Num(usage0 + authed)

\* C23: an error raised by the submission or by the poll loop reaches the
\* caller of generateImage with its kind unchanged: the rejected submission,
\* the generation-failed error the poll loop raises for status 'error' and
\* the timeout keep their statusCode, type and code; an exception that is
\* not an ApiError is wrapped as generation_error with the upstream HTTP
\* status, or 500.
C23_ErrorsReachCallerUnchanged ==
  gpc = "done" =>
    /\ ack = "not_ok" => gresult = Thrown(GenerationFailed)
    /\ "error" \in seen => gresult = Thrown(GenerationFailed)
    /\ ppc = "threw" => gresult = Thrown(pollResult.error)
    /\ ack = "throw" =>
         /\ gresult.kind = "error"
         /\ gresult.error.code = "generation_error"
         /\ gresult.error.statusCode \in {500, 502}

\* C24: every call of generateImage reaches a terminal outcome, whatever the
\* upstream answers (pending, done, error, done without a url, transport
\* failure, no task handle): the poll loop issues at most maxAttempts polls
\* and the call then returns a response or throws.
C24_CallTerminates ==
  /\ [](pollCalls <= maxAttempts)
  /\ <>(gpc = "done" /\ gresult.kind \in {"ok", "error"})

C24_Witness ==
  /\ gpc = "done"
  /\ pollCalls = maxAttempts
  /\ taskUrl = Absent
  /\ gresult = Thrown(GenerationTimeout)

(***************************************************************************)
(* Further properties of the rate limiter                                  *)
(***************************************************************************)
\* C27: every request the limiter admits, the one that creates or resets the
\* record included, carries X-RateLimit-Limit, -Remaining and -Reset, where
\* Remaining is max_requests minus the stored requests_count after this
\* request's consumption, never negative, and Reset is the next midnight.
C27_AdmittedCarriesHeaders ==
  [][\A r \in Reqs :
       (routcome[r] = "none" /\ routcome'[r] = "next") =>
         /\ rec' # NoRec
         /\ rheaders'[r] = [limit |-> rec'.max_requests,
                            remaining |-> rec'.max_requests - rec'.requests_count,
                            reset |-> rreset'[r] + DayLen]
         /\ rec'.max_requests - rec'.requests_count >= 0]_vars

\* C28: after any interleaving of requests of one day, once all of them have
\* completed, the stored requests_count equals the number of requests
\* admitted since the last reset (here: the row was reset to 0 at the start
\* of the day and no request has reset it since), and the count never
\* decreases between resets.
C28_CountEqualsAdmitted ==
  /\ []((/\ RowPresentThroughout
         /\ rec # NoRec
         /\ rec.last_reset = DayLen
         /\ \A r \in Reqs : rpc[r] \in {"idle", "done"})
        => rec.requests_count = Cardinality({r \in Reqs : routcome[r] = "next"}))
  /\ [][(RowPresentThroughout' /\ rec # NoRec /\ rec' # NoRec)
          => rec'.requests_count >= rec.requests_count]_vars

(***************************************************************************)
(* Further properties of pollTaskCompletion                                *)
(***************************************************************************)
\* C29: the call returns success only with the non-empty url the upstream
\* sent in a status 'done' answer; a 'done' answer without a url is treated
\* like a pending one, so after it the call is still polling, or has ended in
\* a later success or in the timeout.
C29_SuccessOnlyWithDoneUrl ==
  /\ ppc = "returned" =>
       /\ pollResult.kind = "ok"
       /\ pollResult.url \in Urls
       /\ pollResult.url = doneUrl
       /\ "done_url" \in seen
       /\ doneAt = pollCalls
  /\ "done_nourl" \in seen =>
       \/ ppc = "loop" /\ attempt >= 1
       \/ ppc = "returned" /\ doneAt > 1
       \/ ppc = "threw" /\ pollResult.error = GenerationTimeout
                         /\ pollCalls = maxAttempts

C29_Witness ==
  /\ ppc = "returned"
  /\ seen = {"done_nourl", "done_url"}
  /\ doneAt = 3
  /\ pollResult.url = doneUrl

(***************************************************************************)
(* Properties of KeepAliveService                                          *)
(***************************************************************************)
\* C30: at most one interval timer is active and isRunning is true exactly
\* when one is; a start while running makes no timer, starts no ping and
\* leaves pingUrl and pingInterval alone; a stop while stopped changes
\* nothing; and a ping is started only by a start that takes effect or by
\* the timer of a running service, so none is started between a stop and
\* the next start.
KaService == <<isRunning, interval, timers, pingUrl, pingInterval, kaLogs, inFlight, pings>>

C30_OneTimerWhileRunning ==
  /\ [](/\ Cardinality(timers) <= 1
        /\ isRunning <=> (timers # {})
        /\ isRunning => (timers = {interval}))
  /\ [][
        /\ (kaOp'.op \in {"start", "route_start", "boot"} /\ isRunning)
             => UNCHANGED KaService
        /\ (kaOp'.op \in {"stop", "route_stop"} /\ ~isRunning)
             => UNCHANGED KaService
        /\ (pings' # pings)
             => /\ pings' = pings + 1
                /\ isRunning'
                /\ \/ ~isRunning /\ kaOp'.op \in {"start", "route_start", "boot"}
                   \/ isRunning /\ kaOp'.op = "tick"
     ]_vars

\* A start was called on a running service after a stop and a restart, and
\* pings of both runs have been started.
C30_Witness ==
  /\ kaOp = [op |-> "start", wasRunning |-> TRUE]
  /\ isRunning
  /\ interval = 2
  /\ timers = {2}
  /\ pings >= 3

\* C31: the log never holds more than maxLogs entries; a step changes it only
\* when a ping completes, and each completed ping, successful or failed,
\* running or stopped, puts exactly one entry at the head, keeps the order of
\* the others and drops only the last, oldest, entry of a full log; getStatus
\* reports the first five entries of the log.
LogEntry == [ping |-> CHOOSE p \in inFlight : p \notin inFlight', url |-> pingUrl, success |-> Head(kaLogs').success]

C31_BoundedLogNewestFirst ==
  /\ [](/\ Len(kaLogs) <= maxLogs
        /\ Len(getStatus.lastPings) = (IF Len(kaLogs) < 5 THEN Len(kaLogs) ELSE 5)
        /\ \A i \in 1..Len(getStatus.lastPings) : getStatus.lastPings[i] = kaLogs[i])
  /\ [][
        /\ (kaLogs' # kaLogs) <=> (inFlight' # inFlight /\ inFlight' \subseteq inFlight)
        /\ (kaLogs' # kaLogs)
             => /\ Cardinality(inFlight \ inFlight') = 1
                /\ kaLogs' = <<LogEntry>> \o
                               SubSeq(kaLogs, 1, IF Len(kaLogs) < maxLogs THEN Len(kaLogs) ELSE maxLogs - 1)
                /\ Head(getStatus'.lastPings) = LogEntry
     ]_vars

\* A ping that failed after the service was stopped has been logged in a
\* full log: the oldest entry is gone and the four before it moved down.
C31_Witness ==
  /\ ~isRunning
  /\ kaOp = [op |-> "ping_done", wasRunning |-> FALSE]
  /\ Len(kaLogs) = maxLogs
  /\ ~kaLogs[1].success
  /\ kaLogs[1].ping >= 2
  /\ kaLogs[maxLogs].ping > -(maxLogs - 1)

(***************************************************************************)
(* Properties of the static catalog                                        *)
(***************************************************************************)
\* C32: the native models GET /models lists, SUPPORTED_MODELS and the keys
\* of MODEL_PROVIDERS are one set; a native model is listed under the
\* provider MODEL_PROVIDERS names for it, whose models contain it; every
\* alias listed maps to a supported model; the keys of FLUX_SIZE_MAP are
\* SUPPORTED_SIZES and its values are flux models; and a POST /generations
\* naming a listed model passes the validation and is resolved to a provider
\* of PROVIDERS that has the resolved model.
Listed == IF path = ModelsPath /\ rtpc = "done" THEN response.data ELSE ModelsList
NativeListed == {e \in Listed : e.provider # "openai-compatible"}

C32_CatalogConsistent ==
  /\ (path = ModelsPath /\ rtpc = "done") => response.status = 200
  /\ {e.id : e \in NativeListed} = SUPPORTED_MODELS
  /\ DOMAIN MODEL_PROVIDERS = SUPPORTED_MODELS
  /\ \A e \in NativeListed :
        /\ e.provider \in DOMAIN PROVIDERS
        /\ MODEL_PROVIDERS[e.id] = e.provider
        /\ e.id \in PROVIDERS[MODEL_PROVIDERS[e.id]].models
  /\ \A m \in DOMAIN MODEL_PROVIDERS :
        /\ MODEL_PROVIDERS[m] \in DOMAIN PROVIDERS
        /\ m \in PROVIDERS[MODEL_PROVIDERS[m]].models
  /\ \A e \in Listed \ NativeListed :
        /\ e.id \in DOMAIN OPENAI_MODEL_MAP
        /\ OPENAI_MODEL_MAP[e.id] \in SUPPORTED_MODELS
  /\ \A a \in DOMAIN OPENAI_MODEL_MAP : OPENAI_MODEL_MAP[a] \in SUPPORTED_MODELS
  /\ DOMAIN FLUX_SIZE_MAP = SUPPORTED_SIZES
  /\ \A s \in DOMAIN FLUX_SIZE_MAP :
        /\ FLUX_SIZE_MAP[s] \in SUPPORTED_MODELS
        /\ MODEL_PROVIDERS[FLUX_SIZE_MAP[s]] = "flux"
  /\ (path = Generations /\ body.model \in {e.id : e \in ModelsList}) =>
        /\ Validate(body) = NoError
        /\ rtpc = "done" => (response.status # 0 /\ response.error.param # "model")
        /\ gpc \notin {"idle", "start"} =>
             /\ submits = 1
             /\ resolved.providerName \in DOMAIN PROVIDERS
             /\ resolved.actualModel \in PROVIDERS[resolved.providerName].models
             /\ resolved.endpoint = PROVIDERS[resolved.providerName].endpoint

\* GET /models has answered with its fourteen entries.
C32_Witness ==
  /\ path = ModelsPath
  /\ rtpc = "done"
  /\ response.status = 200
  /\ Cardinality(response.data) = 14
  /\ [id |-> "sdxl-beta", provider |-> "sdxl"] \in response.data
  /\ [id |-> "stable-diffusion-2", provider |-> "openai-compatible"] \in response.data

====
